---- MODULE Spec2Model ----
(***************************************************************************)
(* Psi backend: the analysis pipeline under the per-user daily quota.      *)
(*                                                                         *)
(*   - the usage ledger (DatabaseService.check_daily_usage /               *)
(*     increment_daily_usage over the daily_usage table);                  *)
(*   - the hybrid detector (ImageRecognitionService.analyze_food_image:    *)
(*     Redis cache, YOLO primary classifier, Claude fallback);             *)
(*   - the request handlers (FoodUploadService.process_food_image,         *)
(*     FridgeDetectionService.process_fridge_detection and                 *)
(*     detect_ingredients_from_images).                                    *)
(*                                                                         *)
(* Confidences are fixed-point hundredths (0.95 is 95).                    *)
(***************************************************************************)
EXTENDS Integers, Sequences, FiniteSets, Bags, TLC

VARIABLES
    today,      \* datetime.utcnow().date(), as a day number
    ledger,     \* table daily_usage: one row per (user_id, date)
    pending,    \* increment statements sent to PostgreSQL and not yet executed
    returned,   \* per counter, the values returned by increment_daily_usage, in order
    calls,      \* number of ledger calls made by direct callers
    queries,    \* number of statements that reached the backing store
    lastRejected, \* the ledger call of the last step, when its key is not whitelisted
    cache,      \* Redis: key -> stored string (a token sequence) with its TTL
    known,      \* per image, the list analyze_food_image last returned, until expiry
    lastCall,   \* the call of analyze_food_image made by the last step, as observed
    scan,       \* one run of detect_ingredients_from_images
    reqs,       \* the requests being handled (a bag: they are interchangeable)
    started,    \* number of requests received so far
    succeeded,  \* per usage type, the number of requests answered with 200
    lastResponse, \* the response sent by the last step, with what its request did
    food_records, \* per day, the number of rows of food_records of the user
    emotion,    \* the call of classify_emotion made by the last step, with its result
    matched,    \* the call of match_recipes made by the last step, with its result
    offered,    \* the call of find_matching_recipes made by the last step, with its result
    shopping,   \* the call of generate_shopping_list made by the last step, with its result
    totals,     \* the call of calculate_total_nutrition made by the last step, with its result
    portion,    \* the call of estimate_portion_size made by the last step, with its result
    batch       \* the nutrition loop of process_food_image run by the last step, with its result

ledgerVars == <<today, ledger, pending, returned, calls, queries, lastRejected>>

detectVars == <<cache, known, lastCall>>

scanVars == <<scan>>

requestVars == <<reqs, started, succeeded, lastResponse, food_records>>

\* observations of the services that keep no state between calls
serviceVars == <<emotion, matched, offered, shopping, totals, portion, batch>>

vars == <<today, ledger, pending, returned, calls, queries, lastRejected, cache, known, lastCall,
          scan, reqs, started, succeeded, lastResponse, food_records, emotion, matched,
          offered,
          shopping,
          totals,
          portion,
          batch>>

(***************************************************************************)
(* Bounds of the model.                                                    *)
(***************************************************************************)
MaxCalls == 3
LastDay == 2
MaxDetections == 2
MaxImages == 2
MaxRequests == 4
MaxInFlight == 2
HrvStep == 5
HrStep == 5
CoherenceStep == 10
MaxTopK == 3
MaxItems == 3
BboxCells == 5

Users == {"u1", "u2"}
Days == 1..LastDay

(***************************************************************************)
(* UsageLedger                                                             *)
(***************************************************************************)
ALLOWED_USAGE_TYPES == {"food_analyses", "fridge_analyses", "wellness_checks"}

\* `if usage_type not in self.ALLOWED_USAGE_TYPES: raise ValueError`
IsAllowedAlways(usage_type) == TRUE

IsAllowed(usage_type) == usage_type \in ALLOWED_USAGE_TYPES

\* usage_type arguments a caller can pass, one of them outside the whitelist
UsageTypeArgs == ALLOWED_USAGE_TYPES \cup {"food_analyses; DROP TABLE daily_usage"}

\* value of a counter column the INSERT does not name
ColumnDefault == 0

NoRow == [present |-> FALSE, cols |-> [t \in ALLOWED_USAGE_TYPES |-> ColumnDefault]]

Rows == [present : BOOLEAN, cols : [ALLOWED_USAGE_TYPES -> Nat]]

\* SELECT {usage_type} FROM daily_usage WHERE user_id = $1 AND date = $2;
\* `row[usage_type] if row else 0`
SelectUsage(table, user, day, usage_type) ==
    LET row == table[user][day]
    IN  IF row.present THEN row.cols[usage_type] ELSE 0

\* the assignment of ON CONFLICT (user_id, date) DO UPDATE SET:
\* daily_usage.{usage_type} + 1
ConflictValueReset(stored) == 1

ConflictValue(stored) == stored + 1

\* an upsert that replaces the whole row of (user, day) on conflict
UpsertRowReplacing(row, usage_type) ==
    [present |-> TRUE,
     cols |-> [t \in ALLOWED_USAGE_TYPES |->
                    IF t = usage_type THEN row.cols[t] + 1 ELSE ColumnDefault]]

\* INSERT ... VALUES ($1, $2, $3, 1) ON CONFLICT (user_id, date) DO UPDATE ...:
\* the row of (user, day) after the statement
UpsertRow(row, usage_type) ==
    IF row.present
    THEN [row EXCEPT !.cols[usage_type] = ConflictValue(row.cols[usage_type])]
    ELSE [present |-> TRUE,
          cols |-> [t \in ALLOWED_USAGE_TYPES |->
                        IF t = usage_type THEN 1 ELSE ColumnDefault]]

\* check_daily_usage answering 0 when the store fails (fail open)
CheckDailyUsageFailOpen(table, user, day, usage_type, dbFails) ==
    IF usage_type \notin ALLOWED_USAGE_TYPES
    THEN [raised |-> "ValueError", value |-> 0, queried |-> FALSE]
    ELSE [raised |-> "none",
          value |-> IF dbFails THEN 0 ELSE SelectUsage(table, user, day, usage_type),
          queried |-> TRUE]

\* check_daily_usage: whitelist, then one SELECT; a failing store raises
\* ServiceUnavailableError (fail closed)
CheckDailyUsage(table, user, day, usage_type, dbFails) ==
    IF ~IsAllowed(usage_type)
    THEN [raised |-> "ValueError", value |-> 0, queried |-> FALSE]
    ELSE IF dbFails
    THEN [raised |-> "ServiceUnavailableError", value |-> 0, queried |-> TRUE]
    ELSE [raised |-> "none",
          value |-> SelectUsage(table, user, day, usage_type),
          queried |-> TRUE]

\* increment_daily_usage logging a store failure and returning 0
IncrementDailyUsageSwallowing(table, user, day, usage_type, dbFails) ==
    IF dbFails
    THEN [table |-> table, raised |-> "none", value |-> 0]
    ELSE LET row == UpsertRow(table[user][day], usage_type)
         IN  [table |-> [table EXCEPT ![user][day] = row],
              raised |-> "none",
              value |-> row.cols[usage_type]]

\* increment_daily_usage whose statement updates the user's row of every date
IncrementDailyUsageEveryDate(table, user, day, usage_type, dbFails) ==
    IF dbFails
    THEN [table |-> table, raised |-> "DatabaseError", value |-> 0]
    ELSE LET row == UpsertRow(table[user][day], usage_type)
         IN  [table |-> [table EXCEPT ![user] =
                            [d \in Days |->
                                IF d = day \/ table[user][d].present
                                THEN UpsertRow(table[user][d], usage_type)
                                ELSE table[user][d]]],
              raised |-> "none",
              value |-> row.cols[usage_type]]

\* increment_daily_usage once its statement is executed by the store:
\* the table afterwards, and the RETURNING value or DatabaseError
IncrementDailyUsage(table, user, day, usage_type, dbFails) ==
    IF dbFails
    THEN [table |-> table, raised |-> "DatabaseError", value |-> 0]
    ELSE LET row == UpsertRow(table[user][day], usage_type)
         IN  [table |-> [table EXCEPT ![user][day] = row],
              raised |-> "none",
              value |-> row.cols[usage_type]]

(***************************************************************************)
(* Direct callers of the ledger, running concurrently: a call of           *)
(* increment_daily_usage computes `today`, sends its statement and awaits; *)
(* the store executes the pending statements one at a time, in any order.  *)
(***************************************************************************)
NoLedgerCall == [op |-> "none", raised |-> "none", queried |-> FALSE]

\* what a call with a key outside the whitelist did; a call with a
\* whitelisted key is not recorded
Rejected(op, usage_type, raised, queried) ==
    IF usage_type \in ALLOWED_USAGE_TYPES
    THEN NoLedgerCall
    ELSE [op |-> op, raised |-> raised, queried |-> queried]

Ledger0 == [u \in Users |-> [d \in Days |-> NoRow]]

Pending0 == [u \in Users |-> [d \in Days |-> [t \in ALLOWED_USAGE_TYPES |-> 0]]]

Returned0 == [u \in Users |-> [d \in Days |-> [t \in ALLOWED_USAGE_TYPES |-> <<>>]]]

\* midnight UTC passes
Midnight ==
    /\ today < LastDay
    /\ today' = today + 1
    /\ lastRejected' = NoLedgerCall
    /\ UNCHANGED <<ledger, pending, returned, calls, queries, detectVars, scanVars, requestVars, serviceVars>>

\* a caller enters increment_daily_usage(user, usage_type)
CallIncrement(user, usage_type) ==
    /\ calls < MaxCalls
    /\ calls' = calls + 1
    /\ IF IsAllowed(usage_type)
       THEN /\ pending' = [pending EXCEPT ![user][today][usage_type] = @ + 1]
            /\ queries' = queries + 1
            /\ lastRejected' = Rejected("increment", usage_type, "none", TRUE)
       ELSE /\ UNCHANGED <<pending, queries>>      \* ValueError
            /\ lastRejected' = Rejected("increment", usage_type, "ValueError", FALSE)
    /\ UNCHANGED <<today, ledger, returned, detectVars, scanVars, requestVars, serviceVars>>

\* the store executes (or fails) one pending increment statement and the
\* caller resumes with the RETURNING value
ExecuteIncrement(user, day, usage_type, dbFails) ==
    /\ pending[user][day][usage_type] > 0
    /\ pending' = [pending EXCEPT ![user][day][usage_type] = @ - 1]
    /\ LET r == IncrementDailyUsage(ledger, user, day, usage_type, dbFails)
       IN  /\ ledger' = r.table
           /\ returned' = IF r.raised = "none"
                          THEN [returned EXCEPT ![user][day][usage_type] =
                                    Append(@, r.value)]
                          ELSE returned
    /\ lastRejected' = NoLedgerCall
    /\ UNCHANGED <<today, calls, queries, detectVars, scanVars, requestVars, serviceVars>>

\* a caller runs check_daily_usage(user, usage_type)
CallCheck(user, usage_type, dbFails) ==
    /\ calls < MaxCalls
    /\ calls' = calls + 1
    /\ LET r == CheckDailyUsage(ledger, user, today, usage_type, dbFails)
       IN  /\ queries' = IF r.queried THEN queries + 1 ELSE queries
           /\ lastRejected' = Rejected("check", usage_type, r.raised, r.queried)
    /\ UNCHANGED <<today, ledger, pending, returned, detectVars, scanVars, requestVars, serviceVars>>

(***************************************************************************)
(* HybridDetector: ImageRecognitionService                                 *)
(***************************************************************************)
YOLO_HIGH_CONFIDENCE_THRESHOLD == 80

\* the TTL analyze_food_image passes to setex, in seconds
CACHE_TTL == 86400

\* image payloads (byte strings) a caller can send
Images == {"imgA", "imgB"}

\* hashlib.md5(image_bytes).hexdigest(): distinct payloads, distinct digests
GetCacheKeyConstant(image_bytes) == "d41d8cd9"

GetCacheKey(image_bytes) ==
    CASE image_bytes = "imgA" -> "0cc175b9"
      [] image_bytes = "imgB" -> "92eb5ffe"

\* f"food_detection:{cache_key}"
RedisKey(cache_key) == <<"food_detection", cache_key>>

CacheKeys == {RedisKey(GetCacheKey(b)) : b \in Images}

\* the 'weight_grams' key is missing from a detection made by YOLO
Absent == -1

\* what YOLO can report for one image: each box once, in descending order of
\* confidence, every confidence >= YOLO_CONFIDENCE_THRESHOLD
YoloMenu ==
    <<[class |-> "apple", confidence |-> 95, bbox |-> <<0, 0, 320, 320>>,
       weight_grams |-> Absent],
      [class |-> "banana", confidence |-> 90, bbox |-> <<0, 0, 320, 320>>,
       weight_grams |-> Absent],
      [class |-> "rice", confidence |-> 70, bbox |-> <<0, 0, 320, 320>>,
       weight_grams |-> Absent],
      [class |-> "bread", confidence |-> 60, bbox |-> <<0, 0, 320, 320>>,
       weight_grams |-> Absent]>>

\* entries of the "foods" array in Claude's answer; nothing validates them
ClaudeMenu ==
    <<[name |-> "apple", confidence |-> 90, weight_grams |-> Absent],
      [name |-> "soup", confidence |-> 120, weight_grams |-> 350]>>

RECURSIVE Pick(_, _, _)
Pick(menu, S, i) ==
    IF i > Len(menu) THEN <<>>
    ELSE (IF i \in S THEN <<menu[i]>> ELSE <<>>) \o Pick(menu, S, i + 1)

\* the lists of at most n entries of menu, in the menu's order
ListsOf(menu, n) ==
    {Pick(menu, S, 1) : S \in {T \in SUBSET (1..Len(menu)) : Cardinality(T) <= n}}

\* what the primary classifier does on one call: raises, or a detection list
YoloOutcomes ==
    {[raised |-> TRUE, detections |-> <<>>]}
        \cup {[raised |-> FALSE, detections |-> d] : d \in ListsOf(YoloMenu, MaxDetections)}

\* what the fallback classifier does on one call: an API error, a timeout, or
\* an answer that parses as JSON, with or without the key 'foods'
ClaudeOutcomes ==
    {[kind |-> "error", has_foods |-> FALSE, foods |-> <<>>],
     [kind |-> "timeout", has_foods |-> FALSE, foods |-> <<>>],
     [kind |-> "json", has_foods |-> FALSE, foods |-> <<>>]}
        \cup {[kind |-> "json", has_foods |-> TRUE, foods |-> f] :
                    f \in ListsOf(ClaudeMenu, MaxDetections)}

NotInvoked == [kind |-> "not invoked", has_foods |-> FALSE, foods |-> <<>>]

NotRun == [raised |-> FALSE, detections |-> <<>>]

\* json.dumps / json.loads of a detection list: the text is a token sequence,
\* "[" {"class", confidence, x1, y1, x2, y2, weight_grams or nothing "}" ... "]"
Punct(c) == [k |-> "punct", s |-> c, n |-> 0]

Str(x) == [k |-> "str", s |-> x, n |-> 0]

Num(x) == [k |-> "num", s |-> "", n |-> x]

DumpDetection(d) ==
    <<Punct("{"), Str(d.class), Num(d.confidence),
      Num(d.bbox[1]), Num(d.bbox[2]), Num(d.bbox[3]), Num(d.bbox[4]),
      IF d.weight_grams = Absent THEN Punct("-") ELSE Num(d.weight_grams),
      Punct("}")>>

TokensPerDetection == Len(DumpDetection(YoloMenu[1]))

RECURSIVE DumpItems(_)
DumpItems(detections) ==
    IF detections = <<>> THEN <<>>
    ELSE DumpDetection(Head(detections)) \o DumpItems(Tail(detections))

JsonDumps(detections) == <<Punct("[")>> \o DumpItems(detections) \o <<Punct("]")>>

LoadDetection(text) ==
    [class |-> text[2].s,
     confidence |-> text[3].n,
     bbox |-> <<text[4].n, text[5].n, text[6].n, text[7].n>>,
     weight_grams |-> IF text[8].k = "num" THEN text[8].n ELSE Absent]

JsonLoads(text) ==
    [i \in 1..((Len(text) - 2) \div TokensPerDetection) |->
        LoadDetection(SubSeq(text, 2 + TokensPerDetection * (i - 1),
                                   1 + TokensPerDetection * i))]

NoEntry == [present |-> FALSE, value |-> <<>>, ttl |-> 0]

\* redis_client.get(key): None when the key is missing
RedisGet(c, key) == c[key]

\* redis_client.setex(key, ttl, value)
RedisSetex(c, key, ttl, value) ==
    [c EXCEPT ![key] = [present |-> TRUE, value |-> value, ttl |-> ttl]]

\* `if cached_result:` on the value of get: None and "" are false
CachedIsTruthyAfterParse(cached) == cached.present /\ JsonLoads(cached.value) # <<>>

CachedIsTruthy(cached) == cached.present /\ cached.value # <<>>

RECURSIVE SumConfidence(_)
SumConfidence(detections) ==
    IF detections = <<>> THEN 0
    ELSE Head(detections).confidence + SumConfidence(Tail(detections))

\* sum(d['confidence'] ...) / len(detections) if detections else 0, rounded
\* down to a hundredth: the threshold is a whole number of hundredths, so the
\* comparison with it is the comparison of the exact mean
AvgConfidence(detections) ==
    IF detections = <<>> THEN 0
    ELSE SumConfidence(detections) \div Len(detections)

\* avg_confidence < settings.YOLO_HIGH_CONFIDENCE_THRESHOLD
NeedsFallbackAtOrBelow(detections) ==
    AvgConfidence(detections) <= YOLO_HIGH_CONFIDENCE_THRESHOLD

NeedsFallback(detections) ==
    AvgConfidence(detections) < YOLO_HIGH_CONFIDENCE_THRESHOLD

\* one food of Claude's answer as a detection
FromClaude(food) ==
    [class |-> food.name,
     confidence |-> food.confidence,
     bbox |-> <<0, 0, 640, 640>>,
     weight_grams |-> IF food.weight_grams = Absent THEN 200 ELSE food.weight_grams]

\* _merge_detections
MergeDetectionsAppend(yolo_results, claude_results) ==
    IF claude_results.has_foods
    THEN yolo_results \o [i \in 1..Len(claude_results.foods) |->
                                FromClaude(claude_results.foods[i])]
    ELSE yolo_results

MergeDetections(yolo_results, claude_results) ==
    IF claude_results.has_foods
    THEN [i \in 1..Len(claude_results.foods) |-> FromClaude(claude_results.foods[i])]
    ELSE yolo_results

\* analyze_food_image, stage 5: setex, then return detections.  A failing
\* setex raises out of analyze_food_image.
StoreAndReturn(c, key, detections, yolo, claude, claudeCalls, SetexFailures) ==
    {IF setexFails
     THEN [cache |-> c, raised |-> "CacheError", result |-> <<>>, hit |-> FALSE,
           yoloCalls |-> 1, claudeCalls |-> claudeCalls,
           yolo |-> yolo, claude |-> claude, setexFailed |-> TRUE]
     ELSE [cache |-> RedisSetex(c, key, CACHE_TTL, JsonDumps(detections)),
           raised |-> "none", result |-> detections, hit |-> FALSE,
           yoloCalls |-> 1, claudeCalls |-> claudeCalls,
           yolo |-> yolo, claude |-> claude, setexFailed |-> FALSE]
     : setexFails \in SetexFailures}

\* analyze_food_image, stage 4 when the fallback is needed: the Claude call is
\* not guarded, so an error or a timeout of it raises out of analyze_food_image
AfterClaude(c, key, yolo, claude, SetexFailures) ==
    IF claude.kind # "json"
    THEN {[cache |-> c, raised |-> "FallbackError", result |-> <<>>, hit |-> FALSE,
           yoloCalls |-> 1, claudeCalls |-> 1,
           yolo |-> yolo, claude |-> claude, setexFailed |-> FALSE]}
    ELSE StoreAndReturn(c, key, MergeDetections(yolo.detections, claude),
                        yolo, claude, 1, SetexFailures)

\* analyze_food_image from stage 3: YOLO inference, confidence gate
AfterYolo(c, key, yolo, ClaudeSet, SetexFailures) ==
    IF yolo.raised
    THEN {[cache |-> c, raised |-> "PrimaryError", result |-> <<>>, hit |-> FALSE,
           yoloCalls |-> 1, claudeCalls |-> 0,
           yolo |-> yolo, claude |-> NotInvoked, setexFailed |-> FALSE]}
    ELSE IF NeedsFallback(yolo.detections)
    THEN UNION {AfterClaude(c, key, yolo, cl, SetexFailures) : cl \in ClaudeSet}
    ELSE StoreAndReturn(c, key, yolo.detections, yolo, NotInvoked, 0, SetexFailures)

\* analyze_food_image(image_bytes) against cache c: every way the call can go,
\* given what the classifiers and the cache write can do.  The call has no
\* suspension point (the Redis, YOLO and Claude clients are synchronous), so it
\* is one step of the event loop.
AnalyzeFoodImage(c, image_bytes, YoloSet, ClaudeSet, SetexFailures) ==
    LET key == RedisKey(GetCacheKey(image_bytes))
        cached_result == RedisGet(c, key)
    IN  IF CachedIsTruthy(cached_result)
        THEN {[cache |-> c, raised |-> "none",
               result |-> JsonLoads(cached_result.value), hit |-> TRUE,
               yoloCalls |-> 0, claudeCalls |-> 0,
               yolo |-> NotRun, claude |-> NotInvoked, setexFailed |-> FALSE]}
        ELSE UNION {AfterYolo(c, key, y, ClaudeSet, SetexFailures) : y \in YoloSet}

(***************************************************************************)
(* Direct callers of analyze_food_image.                                   *)
(***************************************************************************)
Unknown == [known |-> FALSE, list |-> <<>>]

NoCall ==
    [image |-> "none", prior |-> Unknown, raised |-> "none", result |-> <<>>,
     hit |-> FALSE, yoloCalls |-> 0, claudeCalls |-> 0,
     yolo |-> NotRun, claude |-> NotInvoked, setexFailed |-> FALSE,
     stored |-> NoEntry]

Cache0 == [k \in CacheKeys |-> NoEntry]

Known0 == [b \in Images |-> Unknown]

\* a caller awaits analyze_food_image(image_bytes)
AnalyzeCall(image_bytes) ==
    \E o \in AnalyzeFoodImage(cache, image_bytes, YoloOutcomes, ClaudeOutcomes, BOOLEAN) :
        /\ cache' = o.cache
        /\ known' = IF o.raised = "none"
                    THEN [known EXCEPT ![image_bytes] =
                                [known |-> TRUE, list |-> o.result]]
                    ELSE known
        /\ lastCall' = [image |-> image_bytes, prior |-> known[image_bytes],
                        raised |-> o.raised, result |-> o.result, hit |-> o.hit,
                        yoloCalls |-> o.yoloCalls, claudeCalls |-> o.claudeCalls,
                        yolo |-> o.yolo, claude |-> o.claude,
                        setexFailed |-> o.setexFailed,
                        stored |-> o.cache[RedisKey(GetCacheKey(image_bytes))]]
        /\ UNCHANGED <<ledgerVars, scanVars, requestVars, serviceVars>>

\* Redis drops an entry whose TTL has run out
Expire(image_bytes) ==
    LET key == RedisKey(GetCacheKey(image_bytes))
    IN  /\ cache[key].present
        /\ cache' = [cache EXCEPT ![key] = NoEntry]
        /\ known' = [known EXCEPT ![image_bytes] = Unknown]
        /\ lastCall' = NoCall
        /\ UNCHANGED <<ledgerVars, scanVars, requestVars, serviceVars>>

DetectNext ==
    \/ \E b \in Images : AnalyzeCall(b)
    \/ \E b \in Images : Expire(b)

(***************************************************************************)
(* FridgeDetectionService.detect_ingredients_from_images                   *)
(***************************************************************************)
\* what the classifiers do during a fridge scan
ScanYoloOutcomes ==
    {[raised |-> TRUE, detections |-> <<>>],
     [raised |-> FALSE, detections |-> <<YoloMenu[1], YoloMenu[2]>>],
     [raised |-> FALSE, detections |-> <<YoloMenu[3]>>]}

ScanClaudeOutcomes ==
    {[kind |-> "error", has_foods |-> FALSE, foods |-> <<>>],
     [kind |-> "json", has_foods |-> TRUE, foods |-> <<ClaudeMenu[1]>>]}

\* asyncio.gather(*tasks, return_exceptions=True): one entry per task, the
\* task's list or the exception it raised; nothing is re-raised
GatherRaisingFirst(results) ==
    [raised |-> \E i \in 1..Len(results) : results[i].raised # "none",
     results |-> results]

Gather(results) == [raised |-> FALSE, results |-> results]

\* the loop over results: an exception is logged and skipped, every detection
\* of a list becomes a DetectedIngredient
RECURSIVE AllIngredients(_)
AllIngredients(results) ==
    IF results = <<>> THEN <<>>
    ELSE (IF Head(results).raised # "none"
          THEN <<>>
          ELSE [i \in 1..Len(Head(results).list) |->
                    [name |-> Head(results).list[i].class,
                     confidence |-> Head(results).list[i].confidence,
                     quantity |-> "unknown"]])
         \o AllIngredients(Tail(results))

\* the loop body keeping the first ingredient of every name
KeepFirst(unique, ing) ==
    IF \A i \in 1..Len(unique) : unique[i].name # ing.name
    THEN Append(unique, ing)
    ELSE unique

\* unique_ingredients[ing.name] = ing, if the name is new or ing.confidence is
\* greater than the one kept; a dict keeps the place of the first insertion
Keep(unique, ing) ==
    IF \A i \in 1..Len(unique) : unique[i].name # ing.name
    THEN Append(unique, ing)
    ELSE [i \in 1..Len(unique) |->
            IF unique[i].name = ing.name /\ ing.confidence > unique[i].confidence
            THEN ing ELSE unique[i]]

RECURSIVE RemoveDuplicates(_, _)
RemoveDuplicates(all_ingredients, unique) ==
    IF all_ingredients = <<>> THEN unique
    ELSE RemoveDuplicates(Tail(all_ingredients), Keep(unique, Head(all_ingredients)))

\* detect_ingredients_from_images once every task has finished
DetectIngredients(results) ==
    LET g == Gather(results)
    IN  IF g.raised
        THEN [raised |-> TRUE, ingredients |-> <<>>]
        ELSE [raised |-> FALSE,
              ingredients |-> RemoveDuplicates(AllIngredients(g.results), <<>>)]

NoScan == [images |-> <<>>, results |-> <<>>, state |-> "idle", ingredients |-> <<>>]

\* detect_ingredients_from_images(image_bytes_list): the tasks are created
StartScan(image_bytes_list) ==
    /\ scan.state \in {"idle", "returned", "raised"}
    /\ scan' = [images |-> image_bytes_list, results |-> <<>>,
                state |-> "gathering", ingredients |-> <<>>]
    /\ UNCHANGED <<ledgerVars, detectVars, requestVars, serviceVars>>

\* the event loop runs the next task: analyze_food_image never suspends, so
\* the tasks run one after the other, in the order of the images
RunTask ==
    /\ scan.state = "gathering"
    /\ Len(scan.results) < Len(scan.images)
    /\ LET image_bytes == scan.images[Len(scan.results) + 1]
       IN  \E o \in AnalyzeFoodImage(cache, image_bytes,
                                     ScanYoloOutcomes, ScanClaudeOutcomes, BOOLEAN) :
                /\ cache' = o.cache
                /\ known' = IF o.raised = "none"
                            THEN [known EXCEPT ![image_bytes] =
                                        [known |-> TRUE, list |-> o.result]]
                            ELSE known
                /\ scan' = [scan EXCEPT !.results =
                                Append(@, [raised |-> o.raised, list |-> o.result])]
    /\ UNCHANGED <<ledgerVars, lastCall, requestVars, serviceVars>>

\* every task is done: gather returns and the ingredient list is built
JoinScan ==
    /\ scan.state = "gathering"
    /\ Len(scan.results) = Len(scan.images)
    /\ LET r == DetectIngredients(scan.results)
       IN  scan' = [scan EXCEPT !.state = IF r.raised THEN "raised" ELSE "returned",
                                !.ingredients = r.ingredients]
    /\ UNCHANGED <<ledgerVars, detectVars, requestVars, serviceVars>>

ScanNext ==
    \/ \E n \in 1..MaxImages : \E l \in [1..n -> Images] : StartScan(l)
    \/ RunTask
    \/ JoinScan
    \/ \E b \in Images : Expire(b)

(***************************************************************************)
(* The request handlers: FoodUploadService.process_food_image behind       *)
(* upload_food_image, FridgeDetectionService.process_fridge_detection      *)
(* behind detect_fridge_ingredients.  A handler runs until it awaits the   *)
(* database; the statement it awaits is executed by a later step, and      *)
(* other requests run in between.                                          *)
(***************************************************************************)
FREE_TIER_DAILY_LIMIT == 3

Surfaces == {"food", "fridge"}

UsageTypeOf(surface) == IF surface = "food" THEN "food_analyses" ELSE "fridge_analyses"

\* the user of the requests and the image they carry
RequestUser == "u1"

RequestImage == "imgA"

\* what the classifiers do while requests are handled
RequestYoloOutcomes ==
    {[raised |-> TRUE, detections |-> <<>>],
     [raised |-> FALSE, detections |-> <<>>],
     [raised |-> FALSE, detections |-> <<YoloMenu[1], YoloMenu[2]>>]}

RequestClaudeOutcomes == {[kind |-> "json", has_foods |-> FALSE, foods |-> <<>>]}

\* `usage_count >= settings.FREE_TIER_DAILY_LIMIT`
OverLimitStrict(usage_count) == usage_count > FREE_TIER_DAILY_LIMIT

OverLimit(usage_count) == usage_count >= FREE_TIER_DAILY_LIMIT

\* the error_code of each exception type (its constructor's default), as the
\* handlers put it in the response; an HTTPException carries none
ErrorCodeOf(error) ==
    CASE error = "ServiceUnavailableError" -> "PSI-SVC-5002"
      [] error = "DatabaseError" -> "PSI-DB-6002"
      [] OTHER -> "none"

\* str(e) of the exception the store raised
BackendText == "connection to server at 10.0.0.5 refused"

\* details['error'] of the response body: DatabaseError puts
\* str(original_error) into its details, and psi_exception_handler sends the
\* details; the other errors carry no text of the backend
DetailsErrorOf(error) == IF error = "DatabaseError" THEN BackendText ELSE "none"

NoResponse ==
    [surface |-> "none", status |-> 0, error |-> "none", code |-> "none",
     details_error |-> "none", store_failed |-> FALSE, increment_failed |-> FALSE,
     usage_count |-> 0, effects |-> {}, stages |-> <<>>]

\* the response of request r
ResponseOf(r, status, error) ==
    [surface |-> r.surface, status |-> status, error |-> error,
     code |-> ErrorCodeOf(error), details_error |-> DetailsErrorOf(error),
     store_failed |-> r.store_failed, increment_failed |-> r.increment_failed,
     usage_count |-> r.usage_count, effects |-> r.effects, stages |-> r.stages]

Replace(bag, r, r2) == (bag (-) SetToBag({r})) (+) SetToBag({r2})

Remove(bag, r) == bag (-) SetToBag({r})

\* a request arrives with a valid or an invalid upload; a valid one gets to
\* `await self.db_service.check_daily_usage(user_id, ...)`
Receive(surface, valid) ==
    /\ started < MaxRequests
    /\ BagCardinality(reqs) < MaxInFlight
    /\ started' = started + 1
    /\ IF valid
       THEN /\ reqs' = reqs (+) SetToBag({[surface |-> surface, pc |-> "checking",
                                            check |-> "none", store_failed |-> FALSE,
                                            increment_failed |-> FALSE,
                                            usage_count |-> 0, effects |-> {},
                                            stages |-> <<>>]})
            /\ lastResponse' = NoResponse
       ELSE /\ reqs' = reqs
            /\ lastResponse' = [NoResponse EXCEPT !.surface = surface, !.status = 400,
                                                  !.error = "HTTPException"]
    /\ UNCHANGED <<ledgerVars, detectVars, scanVars, succeeded, serviceVars, food_records>>

\* the store answers the SELECT of check_daily_usage, or fails
CheckUsage(r, dbFails) ==
    /\ r.pc = "checking"
    /\ LET c == CheckDailyUsage(ledger, RequestUser, today, UsageTypeOf(r.surface), dbFails)
       IN  reqs' = Replace(reqs, r, [r EXCEPT !.pc = "checked",
                                               !.check = c.raised,
                                               !.store_failed = dbFails,
                                               !.usage_count = c.value])
    /\ lastResponse' = NoResponse
    /\ UNCHANGED <<ledgerVars, detectVars, scanVars, started, succeeded, serviceVars, food_records>>

\* what the call of analyze_food_image did, as effects of the request
DetectionEffects(o) ==
    (IF o.yoloCalls + o.claudeCalls > 0 THEN {"classifier"} ELSE {})
        \cup (IF o.cache # cache THEN {"cache"} ELSE {})

\* process_food_image from the answer of check_daily_usage to the next
\* statement it awaits: limit check, upload_to_s3, analyze_food_image,
\* nutrition lookups (the nutrition cache or database may raise), emotion
FoodPipeline(r) ==
    /\ r.pc = "checked"
    /\ r.surface = "food"
    /\ IF r.check # "none"
       THEN /\ reqs' = Remove(reqs, r)
            /\ lastResponse' = ResponseOf(r, 503, r.check)
            /\ UNCHANGED <<cache, known>>
       ELSE IF OverLimit(r.usage_count)
       THEN /\ reqs' = Remove(reqs, r)
            /\ lastResponse' = ResponseOf(r, 429, "HTTPException")
            /\ UNCHANGED <<cache, known>>
       ELSE \E o \in AnalyzeFoodImage(cache, RequestImage, RequestYoloOutcomes,
                                      RequestClaudeOutcomes, {FALSE}) :
            LET r2 == [r EXCEPT !.effects = @ \cup {"s3", "detect"} \cup DetectionEffects(o),
                                !.stages = Append(@, "detect")]
                r3 == [r2 EXCEPT !.stages = Append(@, "aggregate")]
            IN  /\ cache' = o.cache
                /\ known' = IF o.raised = "none"
                            THEN [known EXCEPT ![RequestImage] =
                                        [known |-> TRUE, list |-> o.result]]
                            ELSE known
                /\ IF o.raised # "none"
                   THEN /\ reqs' = Remove(reqs, r)
                        /\ lastResponse' = ResponseOf(r2, 500, "HTTPException")
                   ELSE IF o.result = <<>>
                   THEN /\ reqs' = Remove(reqs, r)
                        /\ lastResponse' = ResponseOf(r2, 400, "HTTPException")
                   ELSE \E lookupFails \in BOOLEAN, biometrics \in BOOLEAN :
                        IF lookupFails
                        THEN /\ reqs' = Remove(reqs, r)
                             /\ lastResponse' = ResponseOf(r3, 500, "HTTPException")
                        ELSE /\ reqs' = Replace(reqs, r,
                                    IF biometrics
                                    THEN [r3 EXCEPT !.pc = "saving_emotion",
                                                    !.stages = @ \o <<"classify", "recommend">>]
                                    ELSE [r3 EXCEPT !.pc = "saving_record"])
                             /\ lastResponse' = NoResponse
    /\ UNCHANGED <<ledgerVars, lastCall, scanVars, started, succeeded, serviceVars, food_records>>

\* process_fridge_detection from the answer of check_daily_usage to the next
\* statement it awaits: limit check, reading the files (one that is not an
\* image or is too large is refused), detect_ingredients_from_images, emotion
FridgePipeline(r) ==
    /\ r.pc = "checked"
    /\ r.surface = "fridge"
    /\ IF r.check # "none"
       THEN /\ reqs' = Remove(reqs, r)
            /\ lastResponse' = ResponseOf(r, 503, r.check)
            /\ UNCHANGED <<cache, known>>
       ELSE IF OverLimit(r.usage_count)
       THEN /\ reqs' = Remove(reqs, r)
            /\ lastResponse' = ResponseOf(r, 429, "HTTPException")
            /\ UNCHANGED <<cache, known>>
       ELSE \E o \in AnalyzeFoodImage(cache, RequestImage, RequestYoloOutcomes,
                                      RequestClaudeOutcomes, {FALSE}),
               readable \in BOOLEAN :
            IF ~readable
            THEN /\ reqs' = Remove(reqs, r)
                 /\ lastResponse' = ResponseOf(r, 400, "HTTPException")
                 /\ UNCHANGED <<cache, known>>
            ELSE
            LET r2 == [r EXCEPT !.effects = @ \cup {"detect"} \cup DetectionEffects(o),
                                !.stages = Append(@, "detect")]
                found == DetectIngredients(<<[raised |-> o.raised, list |-> o.result]>>)
            IN  /\ cache' = o.cache
                /\ known' = IF o.raised = "none"
                            THEN [known EXCEPT ![RequestImage] =
                                        [known |-> TRUE, list |-> o.result]]
                            ELSE known
                /\ IF found.raised
                   THEN /\ reqs' = Remove(reqs, r)
                        /\ lastResponse' = ResponseOf(r2, 500, "HTTPException")
                   ELSE IF found.ingredients = <<>>
                   THEN /\ reqs' = Remove(reqs, r)
                        /\ lastResponse' = ResponseOf(r2, 400, "HTTPException")
                   ELSE \E biometrics \in BOOLEAN :
                        /\ reqs' = Replace(reqs, r,
                                IF biometrics
                                THEN [r2 EXCEPT !.pc = "saving_emotion",
                                                !.stages = Append(@, "classify")]
                                ELSE [r2 EXCEPT !.pc = "matching"])
                        /\ lastResponse' = NoResponse
    /\ UNCHANGED <<ledgerVars, lastCall, scanVars, started, succeeded, serviceVars, food_records>>

\* the store executes the INSERT of save_emotion_data, or fails (the
\* exception is re-raised and the route answers 500)
SaveEmotion(r, dbFails) ==
    /\ r.pc = "saving_emotion"
    /\ IF dbFails
       THEN /\ reqs' = Remove(reqs, r)
            /\ lastResponse' = ResponseOf(r, 500, "HTTPException")
       ELSE /\ reqs' = Replace(reqs, r,
                        [r EXCEPT !.effects = @ \cup {"emotion"},
                                  !.pc = IF r.surface = "food" THEN "saving_record"
                                         ELSE "matching"])
            /\ lastResponse' = NoResponse
    /\ UNCHANGED <<ledgerVars, detectVars, scanVars, started, succeeded, serviceVars, food_records>>

\* save_food_record logging a failure of its INSERT and returning
SaveRecordSwallowing(r, dbFails) ==
    /\ r.pc = "saving_record"
    /\ reqs' = Replace(reqs, r,
                [r EXCEPT !.effects = IF dbFails THEN @ ELSE @ \cup {"record"},
                          !.pc = "incrementing"])
    /\ food_records' = IF dbFails THEN food_records
                       ELSE [food_records EXCEPT ![today] = @ + 1]
    /\ lastResponse' = NoResponse
    /\ UNCHANGED <<ledgerVars, detectVars, scanVars, started, succeeded, serviceVars>>

\* the store executes the INSERT of save_food_record, or fails
SaveRecord(r, dbFails) ==
    /\ r.pc = "saving_record"
    /\ IF dbFails
       THEN /\ reqs' = Remove(reqs, r)
            /\ food_records' = food_records
            /\ lastResponse' = ResponseOf(r, 500, "HTTPException")
       ELSE /\ reqs' = Replace(reqs, r, [r EXCEPT !.effects = @ \cup {"record"},
                                                   !.pc = "incrementing"])
            /\ food_records' = [food_records EXCEPT ![today] = @ + 1]
            /\ lastResponse' = NoResponse
    /\ UNCHANGED <<ledgerVars, detectVars, scanVars, started, succeeded, serviceVars>>

\* process_fridge_detection from the answer of get_user_preferences (its
\* failures are swallowed) to increment_daily_usage: recipes and shopping
\* list, which change nothing and may raise
MatchRecipes(r, lookupFails) ==
    /\ r.pc = "matching"
    /\ LET r2 == [r EXCEPT !.stages = Append(@, "match")]
       IN  IF lookupFails
           THEN /\ reqs' = Remove(reqs, r)
                /\ lastResponse' = ResponseOf(r2, 500, "HTTPException")
           ELSE /\ reqs' = Replace(reqs, r, [r2 EXCEPT !.pc = "incrementing"])
                /\ lastResponse' = NoResponse
    /\ UNCHANGED <<ledgerVars, detectVars, scanVars, started, succeeded, serviceVars, food_records>>

\* the store executes the upsert of increment_daily_usage, or fails
\* (DatabaseError); on success the handler returns its response
IncrementUsage(r, dbFails) ==
    /\ r.pc = "incrementing"
    /\ LET i == IncrementDailyUsage(ledger, RequestUser, today,
                                    UsageTypeOf(r.surface), dbFails)
           r2 == [r EXCEPT !.stages = Append(@, "increment"),
                           !.increment_failed = dbFails]
       IN  /\ ledger' = i.table
           /\ reqs' = Remove(reqs, r)
           /\ IF i.raised # "none"
              THEN /\ lastResponse' = ResponseOf(r2, 503, i.raised)
                   /\ succeeded' = succeeded
              ELSE /\ lastResponse' =
                        ResponseOf([r2 EXCEPT !.effects = @ \cup {"increment"}],
                                   200, "none")
                   /\ succeeded' = [succeeded EXCEPT ![UsageTypeOf(r.surface)] = @ + 1]
    /\ UNCHANGED <<today, pending, returned, calls, queries, lastRejected,
                   detectVars, scanVars, started, serviceVars, food_records>>

RequestNext ==
    \/ \E s \in Surfaces, valid \in BOOLEAN : Receive(s, valid)
    \/ \E r \in BagToSet(reqs), f \in BOOLEAN : CheckUsage(r, f)
    \/ \E r \in BagToSet(reqs) : FoodPipeline(r)
    \/ \E r \in BagToSet(reqs) : FridgePipeline(r)
    \/ \E r \in BagToSet(reqs), f \in BOOLEAN : SaveEmotion(r, f)
    \/ \E r \in BagToSet(reqs), f \in BOOLEAN : SaveRecord(r, f)
    \/ \E r \in BagToSet(reqs), f \in BOOLEAN : MatchRecipes(r, f)
    \/ \E r \in BagToSet(reqs), f \in BOOLEAN : IncrementUsage(r, f)

(***************************************************************************)
(* EmotionClassifier: EmotionAnalysisService.  HRV is in ms, heart rate in *)
(* bpm, coherence in hundredths; scores are in tenths of a point, so that  *)
(* `distance * 0.5` and `distance * 20` are exact.                         *)
(***************************************************************************)
Min(a, b) == IF a <= b THEN a ELSE b

Max(a, b) == IF a >= b THEN a ELSE b

Abs(a) == IF a >= 0 THEN a ELSE 0 - a

\* the profiles of EMOTION_RULES, in the order of the dict
EmotionTypes ==
    <<"stress", "fatigue", "anxiety", "happiness", "excitement", "calmness", "focus",
      "apathy">>

Range(lo, hi) == [tuple |-> TRUE, lo |-> lo, hi |-> hi]

\* 'hrv': 'unstable' is a string, not a tuple
Unstable == [tuple |-> FALSE, lo |-> 0, hi |-> 0]

EMOTION_RULES ==
    <<[hrv |-> Range(20, 50),  hr |-> Range(85, 120), coherence |-> Range(0, 50)],
      [hrv |-> Range(20, 40),  hr |-> Range(50, 70),  coherence |-> Range(0, 30)],
      [hrv |-> Unstable,       hr |-> Range(85, 120), coherence |-> Range(0, 30)],
      [hrv |-> Range(60, 100), hr |-> Range(70, 85),  coherence |-> Range(80, 100)],
      [hrv |-> Range(40, 60),  hr |-> Range(90, 110), coherence |-> Range(60, 90)],
      [hrv |-> Range(70, 100), hr |-> Range(55, 70),  coherence |-> Range(80, 100)],
      [hrv |-> Range(50, 70),  hr |-> Range(80, 95),  coherence |-> Range(90, 100)],
      [hrv |-> Range(30, 50),  hr |-> Range(50, 65),  coherence |-> Range(30, 60)]>>

\* one of the three parts of _calculate_emotion_score: `full` inside the
\* range, `max(0, full - distance * slope)` outside, nothing when the rule
\* is not a tuple
PartScoreUnclamped(value, rule, full, slope) ==
    IF ~rule.tuple THEN 0
    ELSE IF rule.lo <= value /\ value <= rule.hi THEN full
    ELSE full - Min(Abs(value - rule.lo), Abs(value - rule.hi)) * slope

PartScore(value, rule, full, slope) ==
    IF ~rule.tuple THEN 0
    ELSE IF rule.lo <= value /\ value <= rule.hi THEN full
    ELSE Max(0, full - Min(Abs(value - rule.lo), Abs(value - rule.hi)) * slope)

\* _calculate_emotion_score, in tenths of a point
CalculateEmotionScore(hrv, hr, coherence, rules) ==
    Min(1000, PartScore(hrv, rules.hrv, 400, 5)
                + PartScore(hr, rules.hr, 400, 5)
                + PartScore(coherence, rules.coherence, 200, 2))

\* list.sort(key=score, reverse=True) placing equal scores last first
InsertDescendingUnstable(sorted, e) ==
    LET before == {i \in 1..Len(sorted) : sorted[i].score > e.score}
        k == Cardinality(before)
    IN  SubSeq(sorted, 1, k) \o <<e>> \o SubSeq(sorted, k + 1, Len(sorted))

\* one insertion of the stable descending sort: e goes after every element
\* whose score is at least its own
InsertDescending(sorted, e) ==
    LET before == {i \in 1..Len(sorted) : sorted[i].score >= e.score}
        k == Cardinality(before)
    IN  SubSeq(sorted, 1, k) \o <<e>> \o SubSeq(sorted, k + 1, Len(sorted))

RECURSIVE SortDescending(_)
\* emotions.sort(key=lambda x: x[1], reverse=True): stable
SortDescending(emotions) ==
    IF emotions = <<>> THEN <<>>
    ELSE InsertDescending(SortDescending(SubSeq(emotions, 1, Len(emotions) - 1)),
                          emotions[Len(emotions)])

\* classify_emotion: score is int(top_score), all_emotions the scores as
\* computed
ClassifyEmotion(hrv, hr, coherence) ==
    LET emotions == [i \in 1..Len(EmotionTypes) |->
                        [type |-> EmotionTypes[i],
                         score |-> CalculateEmotionScore(hrv, hr, coherence,
                                                         EMOTION_RULES[i])]]
        sorted == SortDescending(emotions)
    IN  [type |-> sorted[1].type,
         score |-> sorted[1].score \div 10,
         all_emotions |-> [e \in {sorted[i].type : i \in 1..Len(sorted)} |->
                            (CHOOSE x \in {sorted[i] : i \in 1..Len(sorted)} :
                                    x.type = e).score],
         hrv |-> hrv,
         heart_rate |-> hr]

\* the inputs the routes accept: hrv in [10, 200], heart_rate in [30, 220],
\* coherence in [0, 1], sampled on a grid
HrvValues == {v \in 10..200 : v % HrvStep = 0}

HrValues == {v \in 30..220 : v % HrStep = 0}

CoherenceValues == {v \in 0..100 : v % CoherenceStep = 0}

NoEmotion == [called |-> FALSE, coherence |-> 0, result |-> <<>>]

\* a caller classifies one reading; the service keeps nothing between calls
ClassifyCall(hrv, hr, coherence) ==
    /\ ~emotion.called
    /\ emotion' = [called |-> TRUE, coherence |-> coherence,
                   result |-> ClassifyEmotion(hrv, hr, coherence)]
    /\ UNCHANGED <<ledgerVars, detectVars, scanVars, requestVars, matched, offered, shopping, totals, portion, batch>>

EmotionNext ==
    \E hrv \in HrvValues, hr \in HrValues, coherence \in CoherenceValues :
        ClassifyCall(hrv, hr, coherence)

(***************************************************************************)
(* RecipeMatcher: RecipeMatchingService.  emotion_score and                *)
(* ingredient_match are in 240ths, so that `time_diff / 30`, `* 0.25` and  *)
(* `match_count / len(required_set)` are exact.                            *)
(***************************************************************************)
\* str.lower() on the strings of the model
Lower(str) ==
    CASE str = "Tomato" -> "tomato"
      [] str = "PASTA" -> "pasta"
      [] str = "Olive Oil" -> "olive oil"
      [] OTHER -> str

LowerSet(strs) == {Lower(x) : x \in strs}

\* self.recipes as loaded: the recipe of _load_recipes first (it has no
\* 'tags' key), then recipes with tags
RecipeBook ==
    <<[recipe_id |-> "1", name |-> "Simple Pasta",
       ingredients |-> <<"pasta", "tomato", "garlic", "olive oil">>,
       cooking_time |-> 15, difficulty |-> "easy"],
      [recipe_id |-> "2", name |-> "Garlic Bread",
       ingredients |-> <<"bread", "garlic", "butter", "Olive Oil">>,
       cooking_time |-> 10, difficulty |-> "easy", tags |-> <<"gluten", "Dairy">>],
      [recipe_id |-> "3", name |-> "Tomato Soup",
       ingredients |-> <<"Tomato", "garlic", "butter">>,
       cooking_time |-> 30, difficulty |-> "medium", tags |-> <<"Dairy">>],
      [recipe_id |-> "4", name |-> "Toast",
       ingredients |-> <<"bread", "butter">>,
       cooking_time |-> 5, difficulty |-> "easy", tags |-> <<"gluten", "Dairy">>],
      [recipe_id |-> "5", name |-> "Fresh Pasta",
       ingredients |-> <<"pasta", "egg">>,
       cooking_time |-> 70, difficulty |-> "hard", tags |-> <<"gluten">>],
      [recipe_id |-> "6", name |-> "Omelette",
       ingredients |-> <<"egg", "butter">>,
       cooking_time |-> 10, difficulty |-> "easy", tags |-> <<"Dairy">>],
      [recipe_id |-> "7", name |-> "Bruschetta",
       ingredients |-> <<"bread", "tomato", "garlic">>,
       cooking_time |-> 10, difficulty |-> "easy", tags |-> <<"gluten">>],
      [recipe_id |-> "8", name |-> "Carbonara",
       ingredients |-> <<"pasta", "egg", "garlic">>,
       cooking_time |-> 25, difficulty |-> "medium", tags |-> <<"gluten">>],
      [recipe_id |-> "9", name |-> "Butter Pasta",
       ingredients |-> <<"pasta", "garlic", "butter">>,
       cooking_time |-> 20, difficulty |-> "medium", tags |-> <<"gluten", "Dairy">>],
      [recipe_id |-> "10", name |-> "French Toast",
       ingredients |-> <<"bread", "egg", "butter">>,
       cooking_time |-> 15, difficulty |-> "easy", tags |-> <<"gluten", "Dairy">>],
      [recipe_id |-> "11", name |-> "Tomato Salad",
       ingredients |-> <<"tomato", "olive oil">>,
       cooking_time |-> 5, difficulty |-> "easy", tags |-> <<"vegan">>]>>

\* the strings a caller can pass as available ingredients
Pantry ==
    {"tomato", "Tomato", "pasta", "PASTA", "garlic", "olive oil", "bread", "butter", "egg"}

RequiredSet(recipe) == LowerSet({recipe.ingredients[i] : i \in 1..Len(recipe.ingredients)})

\* `match_count / total_needed >= 0.7`
MeetsThresholdHalf(match_count, total_needed) == match_count * 10 >= 5 * total_needed

MeetsThreshold(match_count, total_needed) == match_count * 10 >= 7 * total_needed

RECURSIVE SearchFrom(_, _)
\* _search_recipes: the loop over self.recipes from index i on
SearchFrom(ingredient_set, i) ==
    IF i > Len(RecipeBook) THEN <<>>
    ELSE LET recipe == RecipeBook[i]
             match_count == Cardinality(ingredient_set \cap RequiredSet(recipe))
             total_needed == Cardinality(RequiredSet(recipe))
         IN  (IF MeetsThreshold(match_count, total_needed)
              THEN <<[available_ingredients |-> match_count,
                      total_ingredients |-> total_needed] @@ recipe>>
              ELSE <<>>)
             \o SearchFrom(ingredient_set, i + 1)

SearchRecipes(ingredients) == SearchFrom(LowerSet(ingredients), 1)

\* _calculate_ingredient_match, in 240ths
CalculateIngredientMatch(available, required) ==
    LET available_set == LowerSet(available)
        required_set == LowerSet({required[i] : i \in 1..Len(required)})
    IN  IF required_set = {} THEN 0
        ELSE (Cardinality(available_set \cap required_set) * 240)
                \div Cardinality(required_set)

\* emotion_preferences of _score_by_emotion
EmotionPreferences ==
    [stress |-> [cooking_time |-> <<5, 15>>, difficulty |-> "easy"],
     fatigue |-> [cooking_time |-> <<10, 20>>, difficulty |-> "easy"],
     anxiety |-> [cooking_time |-> <<5, 10>>, difficulty |-> "easy"],
     happiness |-> [cooking_time |-> <<20, 40>>, difficulty |-> "medium"],
     excitement |-> [cooking_time |-> <<15, 30>>, difficulty |-> "medium"],
     calmness |-> [cooking_time |-> <<20, 40>>, difficulty |-> "medium"],
     focus |-> [cooking_time |-> <<25, 45>>, difficulty |-> "hard"],
     apathy |-> [cooking_time |-> <<5, 15>>, difficulty |-> "easy"]]

\* _score_by_emotion, in 240ths: 0.5, plus up to 0.25 for the cooking time
\* (time_score = max(0, 1 - time_diff / 30)), plus 0.25 for the difficulty
ScoreByEmotion(recipe, emotion_type) ==
    IF emotion_type \notin DOMAIN EmotionPreferences THEN 120
    ELSE LET prefs == EmotionPreferences[emotion_type]
             twice_diff == Abs(2 * recipe.cooking_time
                                - (prefs.cooking_time[1] + prefs.cooking_time[2]))
         IN  Min(240, 120 + Max(0, 60 - twice_diff)
                          + (IF recipe.difficulty = prefs.difficulty THEN 60 ELSE 0))

\* the sort key, (emotion_score + ingredient_match) / 2, in 480ths
RankingKey(recipe) == recipe.emotion_score + recipe.ingredient_match

\* a sort that leaves the candidates in the order of the search
SortCandidatesNot(candidates) == candidates

RECURSIVE SortCandidates(_)
\* candidates.sort(key=..., reverse=True): stable
SortCandidates(candidates) ==
    IF candidates = <<>> THEN <<>>
    ELSE LET rest == SortCandidates(SubSeq(candidates, 1, Len(candidates) - 1))
             c == candidates[Len(candidates)]
             k == Cardinality({i \in 1..Len(rest) : RankingKey(rest[i]) >= RankingKey(c)})
         IN  SubSeq(rest, 1, k) \o <<c>> \o SubSeq(rest, k + 1, Len(rest))

\* `candidates[:top_k]` for top_k >= 0 that keeps one recipe more
TakeOneMore(candidates, top_k) == SubSeq(candidates, 1, Min(top_k + 1, Len(candidates)))

\* `candidates[:top_k]` for top_k >= 0
Take(candidates, top_k) == SubSeq(candidates, 1, Min(top_k, Len(candidates)))

\* match_recipes
MatchRecipesFor(ingredients, emotion_type, top_k) ==
    LET candidates == SearchRecipes(ingredients)
        scored == [i \in 1..Len(candidates) |->
                    [emotion_score |-> ScoreByEmotion(candidates[i], emotion_type),
                     ingredient_match |->
                        CalculateIngredientMatch(ingredients, candidates[i].ingredients)]
                    @@ candidates[i]]
    IN  Take(SortCandidates(scored), top_k)

\* emotion_type arguments: the 8 labels and a string that is none of them
EmotionArgs == {EmotionTypes[i] : i \in 1..Len(EmotionTypes)} \cup {"calm"}

NoMatch == [called |-> FALSE, ingredients |-> {}, emotion_type |-> "none", top_k |-> 0,
            result |-> <<>>]

\* a caller matches recipes; the service keeps nothing between calls.  The
\* list of available ingredients is given as the set of its strings: the
\* code only uses set(ing.lower() for ing in ingredients)
MatchCall(ingredients, emotion_type, top_k) ==
    /\ ~matched.called
    /\ matched' = [called |-> TRUE, ingredients |-> ingredients,
                   emotion_type |-> emotion_type, top_k |-> top_k,
                   result |-> MatchRecipesFor(ingredients, emotion_type, top_k)]
    /\ UNCHANGED <<ledgerVars, detectVars, scanVars, requestVars, emotion, offered, shopping, totals, portion, batch>>

RecipeNext ==
    \E ingredients \in SUBSET Pantry, emotion_type \in EmotionArgs, top_k \in 0..MaxTopK :
        MatchCall(ingredients, emotion_type, top_k)

(***************************************************************************)
(* FridgeDetectionService.find_matching_recipes: the preference filter     *)
(* over the recipes match_recipes returns.  Strings are TLA+ strings, and   *)
(* `in`, str() and lower() are computed on their characters.               *)
(***************************************************************************)
UpperLetters == "ABCDEFGHIJKLMNOPQRSTUVWXYZ"

LowerLetters == "abcdefghijklmnopqrstuvwxyz"

LowerChar(c) ==
    IF \E i \in 1..Len(UpperLetters) : SubSeq(UpperLetters, i, i) = c
    THEN LET i == CHOOSE j \in 1..Len(UpperLetters) : SubSeq(UpperLetters, j, j) = c
         IN  SubSeq(LowerLetters, i, i)
    ELSE c

RECURSIVE LowerStr(_)
\* str.lower()
LowerStr(str) ==
    IF Len(str) = 0 THEN ""
    ELSE LowerChar(SubSeq(str, 1, 1)) \o LowerStr(SubSeq(str, 2, Len(str)))

\* `part in text` on two strings
Contains(text, part) ==
    \E i \in 1..(Len(text) - Len(part) + 1) : SubSeq(text, i, i + Len(part) - 1) = part

RECURSIVE Join(_, _)
\* sep.join(list)
Join(list, sep) ==
    IF list = <<>> THEN ""
    ELSE IF Len(list) = 1 THEN list[1]
    ELSE list[1] \o sep \o Join(Tail(list), sep)

\* str(list) of a list of strings
StrOfList(list) == "[" \o Join([i \in 1..Len(list) |-> "'" \o list[i] \o "'"], ", ") \o "]"

\* recipe.get('tags', [])
TagsOf(recipe) == IF "tags" \in DOMAIN recipe THEN recipe.tags ELSE <<>>

\* any(restriction in str(recipe.get('tags', [])).lower() for ...)
IsRestricted(recipe, dietary_restrictions) ==
    \E restriction \in dietary_restrictions :
        Contains(LowerStr(StrOfList(TagsOf(recipe))), restriction)

\* any(dislike.lower() in ' '.join(recipe_ingredients) for ...)
IsDisliked(recipe, disliked_foods) ==
    LET recipe_ingredients ==
            [i \in 1..Len(recipe.ingredients) |-> LowerStr(recipe.ingredients[i])]
    IN  \E dislike \in disliked_foods :
            Contains(Join(recipe_ingredients, " "), LowerStr(dislike))

RECURSIVE FilterRecipes(_, _)
\* the loop that fills filtered_recipes
FilterRecipes(matched_recipes, user_preferences) ==
    IF matched_recipes = <<>> THEN <<>>
    ELSE LET recipe == Head(matched_recipes)
             rest == FilterRecipes(Tail(matched_recipes), user_preferences)
         IN  IF \/ IsRestricted(recipe, user_preferences.dietary_restrictions)
                \/ IsDisliked(recipe, user_preferences.disliked_foods)
             THEN rest
             ELSE <<recipe>> \o rest

\* find_matching_recipes: the 10 best matches, filtered, the first 5 returned
FindMatchingRecipes(ingredients, emotion_type, user_preferences) ==
    LET matched_recipes == MatchRecipesFor(ingredients, emotion_type, 10)
    IN  Take(IF user_preferences.present
             THEN FilterRecipes(matched_recipes, user_preferences)
             ELSE matched_recipes, 5)

\* get_user_preferences returned None
NoPreferences == [present |-> FALSE, dietary_restrictions |-> {}, disliked_foods |-> {}]

\* the preference documents of the model; a key the document lacks reads as
\* the empty list
PreferenceArgs ==
    {NoPreferences} \cup
    [present : {TRUE},
     dietary_restrictions : SUBSET {"gluten", "Dairy"},
     disliked_foods : SUBSET {"garlic", "Oil"}]

\* the names of the deduplicated detections the handler passes on
FridgeContents ==
    SUBSET {"tomato", "pasta", "garlic", "olive oil", "bread", "butter", "egg"}

NoFound == [called |-> FALSE, ingredients |-> {}, emotion_type |-> "none",
            preferences |-> NoPreferences, result |-> <<>>]

\* a caller asks for the recipes of a fridge
FindCall(ingredients, emotion_type, user_preferences) ==
    /\ ~offered.called
    /\ offered' = [called |-> TRUE, ingredients |-> ingredients,
                 emotion_type |-> emotion_type, preferences |-> user_preferences,
                 result |-> FindMatchingRecipes(ingredients, emotion_type, user_preferences)]
    /\ UNCHANGED <<ledgerVars, detectVars, scanVars, requestVars, emotion, matched, shopping, totals, portion, batch>>

FridgeNext ==
    \E ingredients \in FridgeContents, emotion_type \in EmotionArgs,
       user_preferences \in PreferenceArgs :
        FindCall(ingredients, emotion_type, user_preferences)

(***************************************************************************)
(* RecipeMatchingService.generate_shopping_list                            *)
(***************************************************************************)
\* required_set - available_set without lower-casing the available side
MissingIngredientsCaseSensitive(available, recipe) ==
    LowerSet({recipe.ingredients[i] : i \in 1..Len(recipe.ingredients)}) \ available

\* missing = required_set - available_set
MissingIngredients(available, recipe) ==
    LowerSet({recipe.ingredients[i] : i \in 1..Len(recipe.ingredients)})
        \ LowerSet(available)

\* list(missing): the elements of the set, each once, in an order the
\* language does not fix
ListsOfSet(S) ==
    {list \in [1..Cardinality(S) -> S] :
        \A i, j \in 1..Cardinality(S) : list[i] = list[j] => i = j}

GenerateShoppingList(available, recipe) == ListsOfSet(MissingIngredients(available, recipe))

\* the recipes a caller passes: those of the catalog and one without
\* ingredients
ShoppingRecipes ==
    {RecipeBook[i] : i \in 1..Len(RecipeBook)}
        \cup {[recipe_id |-> "0", name |-> "Water", ingredients |-> <<>>,
               cooking_time |-> 0, difficulty |-> "easy"]}

NoShopping == [called |-> FALSE, available |-> {}, ingredients |-> <<>>, result |-> <<>>]

\* a caller asks for the shopping list of a recipe
ShoppingCall(available, recipe) ==
    /\ ~shopping.called
    /\ \E list \in GenerateShoppingList(available, recipe) :
            shopping' = [called |-> TRUE, available |-> available,
                         ingredients |-> recipe.ingredients, result |-> list]
    /\ UNCHANGED <<ledgerVars, detectVars, scanVars, requestVars, emotion, matched, offered, totals, portion, batch>>

ShoppingNext ==
    \E available \in SUBSET Pantry, recipe \in ShoppingRecipes :
        ShoppingCall(available, recipe)

(***************************************************************************)
(* NutritionAnalysisService.calculate_total_nutrition.  Amounts are in     *)
(* hundredths of a unit, so that round(v, 1) has something to round.       *)
(***************************************************************************)
\* the keys of `total`
NutrientKeys ==
    {"calories", "protein", "carbs", "fat", "fiber", "sugar", "sodium", "calcium",
     "iron", "vitamin_a", "vitamin_c"}

\* the items a caller passes: an item is a dict that may have a 'nutrition'
\* dict, which may lack keys
ItemMenu ==
    <<[nutrition |-> [calories |-> 20000, protein |-> 2000, carbs |-> 1000, fat |-> 500]],
      [nutrition |-> [calories |-> 15000, protein |-> 1000, carbs |-> 2000, fat |-> 300]],
      [nutrition |-> [calories |-> 5000, sodium |-> 120, vitamin_c |-> 460]],
      [nutrition |-> [calories |-> 4, sodium |-> 4]],
      [nutrition |-> <<>>],
      [name |-> "water"]>>

\* item['nutrition'].get(key, 0), for an item that has 'nutrition'
AmountOf(item, key) ==
    IF key \in DOMAIN item.nutrition THEN item.nutrition[key] ELSE 0

\* the `if 'nutrition' in item` body for one key
Contribution(item, key) ==
    IF "nutrition" \in DOMAIN item THEN AmountOf(item, key) ELSE 0

\* the loop with `total[key] = ...` in place of `total[key] += ...`
SumKeyOverwriting(food_items, key) ==
    IF food_items = <<>> THEN 0
    ELSE Contribution(food_items[Len(food_items)], key)

RECURSIVE SumKey(_, _)
\* the loop `for item in food_items` for one key
SumKey(food_items, key) ==
    IF food_items = <<>> THEN 0
    ELSE SumKey(SubSeq(food_items, 1, Len(food_items) - 1), key)
            + Contribution(food_items[Len(food_items)], key)

\* round(v, 1) of a non-negative amount: the nearest tenth, a tie going to
\* the even tenth
RoundTenth(v) ==
    LET low == (v \div 10) * 10
    IN  IF v - low < 5 THEN low
        ELSE IF v - low > 5 THEN low + 10
        ELSE IF (low \div 10) % 2 = 0 THEN low ELSE low + 10

CalculateTotalNutrition(food_items) ==
    [key \in NutrientKeys |-> RoundTenth(SumKey(food_items, key))]

RECURSIVE ItemLists(_)
\* the lists of at most n items of the menu
ItemLists(n) ==
    IF n = 0 THEN {<<>>}
    ELSE LET shorter == ItemLists(n - 1)
         IN  shorter \cup {Append(list, ItemMenu[i]) :
                                list \in shorter, i \in 1..Len(ItemMenu)}

NoTotals == [called |-> FALSE, food_items |-> <<>>, result |-> <<>>]

\* a caller totals a list of items
TotalCall(food_items) ==
    /\ ~totals.called
    /\ totals' = [called |-> TRUE, food_items |-> food_items,
                  result |-> CalculateTotalNutrition(food_items)]
    /\ UNCHANGED <<ledgerVars, detectVars, scanVars, requestVars, emotion, matched,
                   offered, shopping, portion, batch>>

NutritionNext == \E food_items \in ItemLists(MaxItems) : TotalCall(food_items)

(***************************************************************************)
(* ImageRecognitionService.estimate_portion_size.  Grams are whole: on the *)
(* grid of the model the pixel count of the image divides 400 times the    *)
(* pixel count of every region.                                            *)
(***************************************************************************)
\* (x2 - x1) * (y2 - y1)
FoodPixels(bbox) == (bbox[3] - bbox[1]) * (bbox[4] - bbox[2])

\* estimated_grams = (ratio / 0.5) * 200
EstimatedGrams(bbox, image_size) ==
    (FoodPixels(bbox) * 400) \div (image_size[1] * image_size[2])

\* estimate_portion_size without the clamp
EstimatePortionSizeUnclamped(bbox, image_size) == EstimatedGrams(bbox, image_size)

\* max(50, min(500, estimated_grams))
EstimatePortionSize(bbox, image_size) ==
    Max(50, Min(500, EstimatedGrams(bbox, image_size)))

\* corner coordinates on a grid of 160 pixels, some beyond the image
Coordinates == {160 * c : c \in 0..BboxCells}

BboxArgs == Coordinates \X Coordinates \X Coordinates \X Coordinates

\* the default image_size and a second one
ImageSizes == {<<640, 640>>, <<320, 640>>}

NoPortion == [called |-> FALSE, bbox |-> <<0, 0, 0, 0>>, image_size |-> <<640, 640>>,
              result |-> 0]

\* a caller estimates the portion of a region
PortionCall(bbox, image_size) ==
    /\ ~portion.called
    /\ portion' = [called |-> TRUE, bbox |-> bbox, image_size |-> image_size,
                   result |-> EstimatePortionSize(bbox, image_size)]
    /\ UNCHANGED <<ledgerVars, detectVars, scanVars, requestVars, emotion, matched,
                   offered, shopping, totals, batch>>

PortionNext ==
    \E bbox \in BboxArgs, image_size \in ImageSizes : PortionCall(bbox, image_size)

(***************************************************************************)
(* FoodUploadService.process_food_image, steps 5 and 6: the nutrition loop *)
(* over the detections and the totals.  Amounts are in hundredths.         *)
(***************************************************************************)
\* rows of the foods table, per 100 g
FoodsTable ==
    [apple |-> [name |-> "Apples, raw", calories |-> 5200, protein |-> 30, carbs |-> 1400,
                fat |-> 20, fiber |-> 240, sugar |-> 1000, sodium |-> 100, calcium |-> 600,
                iron |-> 10, vitamin_a |-> 300, vitamin_c |-> 460],
     rice |-> [name |-> "Rice, white, cooked", calories |-> 13000, protein |-> 270,
               carbs |-> 2800, fat |-> 30, fiber |-> 40, sugar |-> 10, sodium |-> 100,
               calcium |-> 1000, iron |-> 120, vitamin_a |-> 0, vitamin_c |-> 0],
     soup |-> [name |-> "Soup, vegetable", calories |-> 3000, protein |-> 100,
               carbs |-> 500, fat |-> 50, fiber |-> 100, sugar |-> 200, sodium |-> 25000,
               calcium |-> 1000, iron |-> 30, vitamin_a |-> 5000, vitamin_c |-> 100]]

\* get_nutrition_info when the row is found: the dict it builds, every
\* nutrient scaled by portion_grams / 100.0 and rounded to one decimal
NutritionInfo(food_name, portion_grams) ==
    LET row == FoodsTable[food_name]
    IN  [key \in NutrientKeys |-> RoundTenth((row[key] * portion_grams) \div 100)]
            @@ [name |-> row.name, portion_grams |-> portion_grams * 100]

\* the outcomes of one get_nutrition_info call: a dict, None, or an exception
\* of the database or of the cache
LookupOutcomes == {"found", "none", "raised"}

\* the keys of a nutrition dict whose value is a str
TextKeys == {"name"}

\* FoodItem declares nutrition: Dict[str, float]; the model class refuses a
\* dict with a value that is not a number
FoodItemAccepts(nutrition) == DOMAIN nutrition \cap TextKeys = {}

\* the FoodItem of a detection
FoodItem(detection, portion_grams, calories, nutrition) ==
    [name |-> detection.class, confidence |-> detection.confidence,
     grams |-> portion_grams, calories |-> calories, nutrition |-> nutrition]

RECURSIVE NutritionLoop(_, _, _, _, _)
\* `for detection in detections` from the i-th detection on
NutritionLoop(detections, lookups, i, food_items, total_calories) ==
    IF i > Len(detections)
    THEN [raised |-> "none", lookups_done |-> Len(detections), food_items |-> food_items,
          total_calories |-> total_calories,
          total_nutrition |->
            CalculateTotalNutrition([j \in 1..Len(food_items) |->
                                        [nutrition |-> food_items[j].nutrition]])]
    ELSE LET detection == detections[i]
             portion_grams == EstimatePortionSize(detection.bbox, <<640, 640>>)
             nutrition == NutritionInfo(detection.class, portion_grams)
             failed(error) ==
                [raised |-> error, lookups_done |-> i, food_items |-> food_items,
                 total_calories |-> total_calories, total_nutrition |-> <<>>]
         IN  IF lookups[i] = "raised" THEN failed("LookupError")
             ELSE IF lookups[i] = "found"
             THEN IF FoodItemAccepts(nutrition)
                  THEN NutritionLoop(detections, lookups, i + 1,
                            Append(food_items,
                                   FoodItem(detection, portion_grams,
                                            nutrition.calories, nutrition)),
                            total_calories + nutrition.calories)
                  ELSE failed("ValidationError")
             ELSE NutritionLoop(detections, lookups, i + 1,
                        Append(food_items, FoodItem(detection, portion_grams, 0, <<>>)),
                        total_calories)

GatherNutrition(detections, lookups) == NutritionLoop(detections, lookups, 1, <<>>, 0)

\* the detections analyze_food_image can hand over: two of the primary
\* classifier, one of the fallback
DetectionMenu == <<YoloMenu[1], YoloMenu[3], FromClaude(ClaudeMenu[2])>>

RECURSIVE DetectionLists(_)
\* the non-empty lists of at most n detections of the menu
DetectionLists(n) ==
    IF n = 1 THEN {<<DetectionMenu[i]>> : i \in 1..Len(DetectionMenu)}
    ELSE LET shorter == DetectionLists(n - 1)
         IN  shorter \cup {Append(list, DetectionMenu[i]) :
                                list \in shorter, i \in 1..Len(DetectionMenu)}

NoBatch == [called |-> FALSE, detections |-> <<>>, lookups |-> <<>>,
            result |-> [raised |-> "none", lookups_done |-> 0, food_items |-> <<>>,
                        total_calories |-> 0, total_nutrition |-> <<>>]]

\* a request reaches step 5 with a non-empty list of detections
BatchCall(detections, lookups) ==
    /\ ~batch.called
    /\ batch' = [called |-> TRUE, detections |-> detections, lookups |-> lookups,
                 result |-> GatherNutrition(detections, lookups)]
    /\ UNCHANGED <<ledgerVars, detectVars, scanVars, requestVars, emotion, matched,
                   offered, shopping, totals, portion>>

BatchNext ==
    \E detections \in DetectionLists(MaxItems) :
        \E lookups \in [1..Len(detections) -> LookupOutcomes] :
            BatchCall(detections, lookups)

LedgerNext ==
    \/ Midnight
    \/ \E u \in Users, t \in UsageTypeArgs : CallIncrement(u, t)
    \/ \E u \in Users, d \in Days, t \in ALLOWED_USAGE_TYPES, f \in BOOLEAN :
            ExecuteIncrement(u, d, t, f)
    \/ \E u \in Users, t \in UsageTypeArgs, f \in BOOLEAN : CallCheck(u, t, f)

(***************************************************************************)
(* Specifications                                                          *)
(***************************************************************************)
Init ==
    /\ today = 1
    /\ ledger = Ledger0
    /\ pending = Pending0
    /\ returned = Returned0
    /\ calls = 0
    /\ queries = 0
    /\ lastRejected = NoLedgerCall
    /\ cache = Cache0
    /\ known = Known0
    /\ lastCall = NoCall
    /\ scan = NoScan
    /\ reqs = EmptyBag
    /\ started = 0
    /\ succeeded = [t \in ALLOWED_USAGE_TYPES |-> 0]
    /\ lastResponse = NoResponse
    /\ food_records = [d \in Days |-> 0]
    /\ emotion = NoEmotion
    /\ matched = NoMatch
    /\ offered = NoFound
    /\ shopping = NoShopping
    /\ totals = NoTotals
    /\ portion = NoPortion
    /\ batch = NoBatch

SpecLedger == Init /\ [][LedgerNext]_vars

SpecDetect == Init /\ [][DetectNext]_vars

SpecScan == Init /\ [][ScanNext]_vars

SpecRequests == Init /\ [][RequestNext]_vars

SpecEmotion == Init /\ [][EmotionNext]_vars

SpecRecipes == Init /\ [][RecipeNext]_vars

SpecFridge == Init /\ [][FridgeNext]_vars

SpecShopping == Init /\ [][ShoppingNext]_vars

SpecNutrition == Init /\ [][NutritionNext]_vars

SpecPortion == Init /\ [][PortionNext]_vars

SpecBatch == Init /\ [][BatchNext]_vars

(***************************************************************************)
(* C1: N concurrent increment_daily_usage calls on one (user, feature,     *)
(* date) whose counter starts absent leave the stored counter at exactly   *)
(* N, and the N returned values are exactly 1..N, none repeated.           *)
(***************************************************************************)
C1_NoLostUpdate ==
    \A u \in Users, d \in Days, t \in ALLOWED_USAGE_TYPES :
        LET rs == returned[u][d][t]
        IN  /\ SelectUsage(ledger, u, d, t) = Len(rs)
            /\ {rs[i] : i \in 1..Len(rs)} = 1..Len(rs)
            /\ \A i, j \in 1..Len(rs) : rs[i] = rs[j] => i = j

\* three increments of one counter were in flight together and all returned
C1_Witness ==
    \E u \in Users, d \in Days, t \in ALLOWED_USAGE_TYPES :
        /\ Len(returned[u][d][t]) = MaxCalls
        /\ calls = MaxCalls
        /\ ledger[u][d].cols[t] = MaxCalls

\* what a request may have done once it got past the usage check
SideEffects == {"s3", "detect", "classifier", "cache", "emotion", "record", "increment"}

\* C2: on each surface, the number of requests of one user answered with
\* success on one date never exceeds FREE_TIER_DAILY_LIMIT, whatever the
\* interleaving of concurrent requests.
C2_DailyLimitEnforced ==
    \A t \in ALLOWED_USAGE_TYPES : succeeded[t] <= FREE_TIER_DAILY_LIMIT

C4_OverLimitRejected ==
    /\ \A r \in BagToSet(reqs) :
            (r.pc # "checking" /\ ~r.store_failed /\ r.usage_count >= FREE_TIER_DAILY_LIMIT)
                => r.pc = "checked" /\ r.effects = {}
    /\ (lastResponse.status # 0 /\ ~lastResponse.store_failed
            /\ lastResponse.usage_count >= FREE_TIER_DAILY_LIMIT)
        => /\ lastResponse.status = 429
           /\ lastResponse.effects \cap SideEffects = {}

C4_Witness ==
    /\ lastResponse.status = 429
    /\ lastResponse.usage_count = FREE_TIER_DAILY_LIMIT
    /\ ~lastResponse.store_failed

(***************************************************************************)
(* C11: increment_daily_usage is an upsert that returns the stored value:  *)
(* the first call for a (user, feature, date) creates the counter at 1,    *)
(* also when the row of that user and date exists because of another       *)
(* feature; each later call raises the counter by exactly 1 and leaves the *)
(* other counters alone; the value returned is the counter as stored       *)
(* right after the call.                                                   *)
(***************************************************************************)
C11_UpsertReturnsStored ==
    [][\A u \in Users, d \in Days, t \in ALLOWED_USAGE_TYPES :
            LET before == SelectUsage(ledger, u, d, t)
                after == SelectUsage(ledger', u, d, t)
            IN  /\ after \in {before, before + 1}
                /\ returned'[u][d][t] # returned[u][d][t] =>
                        /\ after = before + 1
                        /\ before = 0 => after = 1
                        /\ returned'[u][d][t] = Append(returned[u][d][t], after)]_vars

\* the counter of a second feature was created at 1 in a row that the
\* first feature had already brought to 2
C11_Witness ==
    \E u \in Users, d \in Days :
        /\ ledger[u][d].present
        /\ ledger[u][d].cols["food_analyses"] = 2
        /\ ledger[u][d].cols["fridge_analyses"] = 1
        /\ returned[u][d]["food_analyses"] = <<1, 2>>
        /\ returned[u][d]["fridge_analyses"] = <<1>>

(***************************************************************************)
(* C12: when increment_daily_usage fails after the feature work was done,  *)
(* the request does not return success: it ends in a hard error whose type *)
(* and error code differ from those of the 429 quota rejection and from    *)
(* those of the error raised when the usage check itself fails.            *)
(***************************************************************************)
C12_IncrementFailureIsHardError ==
    /\ lastResponse.increment_failed =>
            /\ lastResponse.status # 200
            /\ lastResponse.status >= 500
            /\ lastResponse.error = "DatabaseError"
            /\ lastResponse.code = ErrorCodeOf("DatabaseError")
            /\ "detect" \in lastResponse.effects
            /\ "increment" \notin lastResponse.effects
    /\ (lastResponse.status = 429 \/ lastResponse.store_failed) =>
            /\ lastResponse.error # "DatabaseError"
            /\ lastResponse.code # ErrorCodeOf("DatabaseError")
    /\ ErrorCodeOf("DatabaseError") \notin {"none", ErrorCodeOf("ServiceUnavailableError")}

\* a food upload that was analysed and recorded, and whose increment failed
C12_Witness ==
    /\ lastResponse.increment_failed
    /\ lastResponse.surface = "food"
    /\ {"s3", "detect", "record"} \subseteq lastResponse.effects
    /\ lastResponse.error = "DatabaseError"

(***************************************************************************)
(* C13: check_daily_usage and increment_daily_usage reject every feature   *)
(* key outside the whitelist before any storage operation: the call fails  *)
(* with an error, no query reaches the backing store and no counter        *)
(* changes.                                                                *)
(***************************************************************************)
C13_WhitelistBeforeStorage ==
    [][lastRejected'.op # "none" =>
            /\ lastRejected'.raised = "ValueError"
            /\ ~lastRejected'.queried
            /\ queries' = queries
            /\ pending' = pending
            /\ ledger' = ledger
            /\ returned' = returned]_vars

\* increment_daily_usage refused a key while counters were stored and a
\* statement had reached the store
C13_Witness ==
    /\ lastRejected.op = "increment"
    /\ lastRejected.raised = "ValueError"
    /\ queries > 0
    /\ \E u \in Users, d \in Days : ledger[u][d].present

(***************************************************************************)
(* C14: within one request the stages run in a fixed order and the ledger  *)
(* increment is the last stage, executed at most once and only after every *)
(* earlier stage completed without error.  On the food surface the order   *)
(* is detect, aggregate, classify emotion, compose recommendation,         *)
(* increment; on the fridge surface it is detect, classify emotion, match, *)
(* increment: recipes are matched after the emotion is classified, since   *)
(* the emotion is an input of the match.                                   *)
(***************************************************************************)
StageOrder(surface) ==
    IF surface = "fridge"
    THEN <<"detect", "classify", "match", "increment">>
    ELSE <<"detect", "aggregate", "classify", "recommend", "increment">>

\* the order of the stages as the specification words it, for both surfaces
StatedStageOrder == <<{"detect"}, {"aggregate", "match"}, {"classify"}, {"recommend"},
                      {"increment"}>>

PositionIn(order, stage) == CHOOSE i \in 1..Len(order) : order[i] = stage

StatedPosition(stage) == CHOOSE i \in 1..Len(StatedStageOrder) : stage \in StatedStageOrder[i]

\* the stages of x (a request or a response) ran in the order of its surface
InOrder(x) ==
    \A i, j \in 1..Len(x.stages) :
        i < j => PositionIn(StageOrder(x.surface), x.stages[i])
                    < PositionIn(StageOrder(x.surface), x.stages[j])

\* the increment of x, if it ran, ran last, after every stage that its
\* surface always runs, and after the records were saved
IncrementLast(x) ==
    \A i \in 1..Len(x.stages) :
        x.stages[i] = "increment" =>
            /\ i = Len(x.stages)
            /\ "detect" \in {x.stages[j] : j \in 1..(i - 1)}
            /\ (IF x.surface = "food" THEN "aggregate" ELSE "match")
                    \in {x.stages[j] : j \in 1..(i - 1)}
            /\ x.surface = "food" => "record" \in x.effects
            /\ "classify" \in {x.stages[j] : j \in 1..(i - 1)} => "emotion" \in x.effects

EmotionLabels == {EmotionTypes[i] : i \in 1..Len(EmotionTypes)}

\* the highest score of the returned distribution, in tenths of a point
TopScore == CHOOSE m \in {emotion.result.all_emotions[e] : e \in EmotionLabels} :
                \A e \in EmotionLabels : emotion.result.all_emotions[e] <= m

(***************************************************************************)
(* C15: for every valid (variability, rate, coherence) classify_emotion    *)
(* returns a label of the fixed set of 8 emotions, a confidence score in   *)
(* [0,100], and a distribution holding a score in [0,100] for each of the  *)
(* 8 labels.                                                               *)
(***************************************************************************)
C15_EmotionResultInRange ==
    emotion.called =>
        /\ emotion.result.type \in EmotionLabels
        /\ Cardinality(EmotionLabels) = 8
        /\ emotion.result.score \in 0..100
        /\ DOMAIN emotion.result.all_emotions = EmotionLabels
        /\ \A e \in EmotionLabels : emotion.result.all_emotions[e] \in 0..1000

\* the largest valid variability and rate, with no coherence at all
C15_Witness ==
    /\ emotion.called
    /\ emotion.result.hrv = 200
    /\ emotion.result.heart_rate = 220
    /\ emotion.coherence = 0
    /\ emotion.result.score \in 0..100

(***************************************************************************)
(* C16: the label returned by classify_emotion is a profile with the       *)
(* maximum score: no label of the distribution scores strictly higher, the *)
(* confidence is the integer part of that maximum, and among the profiles  *)
(* tied at the maximum the first in the fixed profile order is returned.   *)
(***************************************************************************)
C16_TopProfileFirstOnTies ==
    emotion.called =>
        /\ emotion.result.all_emotions[emotion.result.type] = TopScore
        /\ emotion.result.score = TopScore \div 10
        /\ \A i, j \in 1..Len(EmotionTypes) :
                (/\ EmotionTypes[j] = emotion.result.type
                 /\ emotion.result.all_emotions[EmotionTypes[i]] = TopScore) => j <= i

\* two profiles tied at the maximum: the earlier one is returned
C16_Witness ==
    /\ emotion.called
    /\ \E i, j \in 1..Len(EmotionTypes) :
            /\ i < j
            /\ EmotionTypes[i] = emotion.result.type
            /\ emotion.result.all_emotions[EmotionTypes[j]] = TopScore

(***************************************************************************)
(* C17: all 8 emotions can be detected: for each of the 8 labels there is  *)
(* a valid input (variability, rate, coherence) for which classify_emotion *)
(* returns that label.                                                     *)
(***************************************************************************)
C17_AllEmotionsDetectable ==
    emotion.called =>
        \A label \in EmotionLabels :
            \E hrv \in HrvValues, hr \in HrValues, coherence \in CoherenceValues :
                ClassifyEmotion(hrv, hr, coherence).type = label

\* no call returns anxiety: the stress profile scores at least as much on
\* every input and comes first
AnxietyNeverReturned ==
    emotion.called =>
        /\ emotion.result.type # "anxiety"
        /\ emotion.result.all_emotions["stress"] >= emotion.result.all_emotions["anxiety"]

(***************************************************************************)
(* Observations of the last analyze_food_image call.                       *)
(***************************************************************************)
Called == lastCall.image # "none"

\* the call went past the cache lookup and YOLO answered
Missed == Called /\ ~lastCall.hit /\ ~lastCall.yolo.raised

Primary == lastCall.yolo.detections

ItemsOf(list) == {list[i] : i \in 1..Len(list)}

\* the exact mean of the primary confidences is below the threshold
MeanBelowThreshold(list) ==
    \/ list = <<>>
    \/ SumConfidence(list) < YOLO_HIGH_CONFIDENCE_THRESHOLD * Len(list)

(***************************************************************************)
(* C5: once analyze_food_image has returned a list L for image bytes b,    *)
(* any later call with the same bytes before the entry expires returns a   *)
(* list equal to L and invokes neither the primary nor the fallback        *)
(* classifier; this holds for every L, the empty list included.            *)
(***************************************************************************)
C5_IdempotentThroughCache ==
    (Called /\ lastCall.prior.known) =>
        /\ lastCall.raised = "none"
        /\ lastCall.result = lastCall.prior.list
        /\ lastCall.yoloCalls = 0
        /\ lastCall.claudeCalls = 0

\* a second call for an image whose first call returned the empty list
C5_Witness ==
    /\ Called
    /\ lastCall.prior.known
    /\ lastCall.prior.list = <<>>
    /\ lastCall.hit
    /\ lastCall.result = <<>>

(***************************************************************************)
(* C6: on a cache miss the fallback classifier is invoked if and only if   *)
(* the arithmetic mean of the primary confidences (0 for an empty list) is *)
(* strictly below the high-confidence threshold; when every candidate is   *)
(* at or above the threshold the fallback is not invoked and the list the  *)
(* call returns is the primary list, unchanged.                            *)
(***************************************************************************)
C6_FallbackIffMeanBelow ==
    Missed =>
        /\ (lastCall.claudeCalls > 0) <=> MeanBelowThreshold(Primary)
        /\ (/\ Primary # <<>>
            /\ \A i \in 1..Len(Primary) :
                    Primary[i].confidence >= YOLO_HIGH_CONFIDENCE_THRESHOLD)
                => /\ lastCall.claudeCalls = 0
                   /\ lastCall.claude = NotInvoked
                   /\ lastCall.raised = "none" => lastCall.result = Primary

\* a miss whose primary candidates are 0.95 and 0.90: no fallback call
C6_Witness ==
    /\ Missed
    /\ Len(Primary) = 2
    /\ Primary[1].confidence = 95
    /\ Primary[2].confidence = 90
    /\ lastCall.claudeCalls = 0
    /\ lastCall.result = Primary

(***************************************************************************)
(* C7: on a cache miss where the mean primary confidence is below the      *)
(* threshold, the fallback classifier is invoked exactly once for that     *)
(* call, and when it succeeds (it answers with a 'foods' array) the        *)
(* returned and cached list consists only of the fallback's items: no      *)
(* primary item remains in it.                                             *)
(***************************************************************************)
C7_FallbackReplacesPrimary ==
    (Missed /\ MeanBelowThreshold(Primary)) =>
        /\ lastCall.claudeCalls = 1
        /\ (lastCall.claude.has_foods /\ lastCall.raised = "none") =>
            /\ Len(lastCall.result) = Len(lastCall.claude.foods)
            /\ \A i \in 1..Len(lastCall.result) :
                /\ lastCall.result[i].class = lastCall.claude.foods[i].name
                /\ lastCall.result[i].confidence = lastCall.claude.foods[i].confidence
            /\ ItemsOf(lastCall.result) \cap ItemsOf(Primary) = {}
            /\ lastCall.stored.present
            /\ JsonLoads(lastCall.stored.value) = lastCall.result

\* low-confidence primary items, replaced by a non-empty fallback answer
C7_Witness ==
    /\ Missed
    /\ Primary # <<>>
    /\ MeanBelowThreshold(Primary)
    /\ lastCall.claudeCalls = 1
    /\ lastCall.claude.has_foods
    /\ lastCall.claude.foods # <<>>
    /\ lastCall.raised = "none"
    /\ lastCall.stored.present

(***************************************************************************)
(* C8: a failure (error or timeout) of the fallback classifier is          *)
(* swallowed: analyze_food_image still returns, with the primary           *)
(* classifier's list, and that list is what is stored in the cache.        *)
(***************************************************************************)
C8_FallbackFailureSwallowed ==
    (Called /\ lastCall.claude.kind \in {"error", "timeout"}) =>
        /\ lastCall.raised = "none"
        /\ lastCall.result = Primary
        /\ lastCall.stored.present
        /\ JsonLoads(lastCall.stored.value) = Primary

(***************************************************************************)
(* C9: a failure of the cache store operation after inference is not       *)
(* fatal: analyze_food_image still returns the computed detection list,    *)
(* and the only difference is that no cache entry exists afterwards.       *)
(***************************************************************************)
C9_CacheStoreFailureNonFatal ==
    (Called /\ lastCall.setexFailed) =>
        /\ lastCall.raised = "none"
        /\ lastCall.result = MergeDetections(Primary, lastCall.claude)
        /\ ~lastCall.stored.present

(***************************************************************************)
(* C10: in a scan of N images the N detection calls are issued together    *)
(* and joined; a call that raises does not abort the others: the           *)
(* ingredient list is built from exactly the detections of the calls that  *)
(* succeeded, the failed calls contribute nothing, and no exception of a   *)
(* single image is re-raised by detect_ingredients_from_images.            *)
(***************************************************************************)
SucceededDetections ==
    UNION {ItemsOf(scan.results[i].list) :
                i \in {j \in 1..Len(scan.results) : scan.results[j].raised = "none"}}

C10_FailedImagesAreDropped ==
    /\ scan.state # "raised"
    /\ scan.state = "returned" =>
        /\ Len(scan.results) = Len(scan.images)
        /\ {ing.name : ing \in ItemsOf(scan.ingredients)}
                = {d.class : d \in SucceededDetections}
        /\ \A ing \in ItemsOf(scan.ingredients) :
                \E d \in SucceededDetections :
                    d.class = ing.name /\ d.confidence = ing.confidence

\* a scan of two images: the first call raised, the second one succeeded
C10_Witness ==
    /\ scan.state = "returned"
    /\ Len(scan.results) = 2
    /\ scan.results[1].raised # "none"
    /\ scan.results[2].raised = "none"
    /\ scan.ingredients # <<>>

(***************************************************************************)
(* Observations of the last match_recipes call.                            *)
(***************************************************************************)
Returned == {matched.result[i] : i \in 1..Len(matched.result)}

\* the recipes of the book that the call did not return
LeftOut ==
    {i \in 1..Len(RecipeBook) :
        \A r \in Returned : r.recipe_id # RecipeBook[i].recipe_id}

\* the required ingredients of a recipe that are available, compared in
\* lower case
AvailableOf(recipe) == RequiredSet(recipe) \cap LowerSet(matched.ingredients)

\* the ranking key of a recipe of the book under the arguments of the call,
\* in 480ths: emotion_score + ingredient_match
KeyOf(recipe) ==
    ScoreByEmotion(recipe, matched.emotion_type)
        + CalculateIngredientMatch(matched.ingredients, recipe.ingredients)

\* every recipe returned by match_recipes has emotion_score and
\* ingredient_match in [0, 1]
RecipeScoresInRange ==
    matched.called =>
        \A r \in Returned :
            /\ r.emotion_score \in 0..240
            /\ r.ingredient_match \in 0..240

(***************************************************************************)
(* C18: no caller observes an out-of-range value: every detection returned *)
(* by analyze_food_image, from the primary classifier, the fallback        *)
(* classifier or the cache, has confidence in [0, 1] (here 0..100          *)
(* hundredths); the recipe half of the claim is RecipeScoresInRange.       *)
(***************************************************************************)
C18_DetectionConfidenceInRange ==
    (Called /\ lastCall.raised = "none") =>
        \A d \in ItemsOf(lastCall.result) : d.confidence \in 0..100

(***************************************************************************)
(* C19: match_recipes never returns a recipe whose ingredient match ratio  *)
(* (required ingredients that are available, compared case-insensitively,  *)
(* over the number of required ingredients) is below 0.70; a returned      *)
(* recipe whose required ingredients are all available has ratio exactly   *)
(* 1.0, and one with 3 of 4 available has 0.75.                            *)
(***************************************************************************)
C19_ThresholdAndRatio ==
    matched.called =>
        \A r \in Returned :
            LET required == LowerSet({r.ingredients[i] : i \in 1..Len(r.ingredients)})
                have == Cardinality(required \cap LowerSet(matched.ingredients))
                need == Cardinality(required)
            IN  /\ 100 * have >= 70 * need
                /\ r.ingredient_match * need = 240 * have
                /\ (have = need => r.ingredient_match = 240)
                /\ (have = 3 /\ need = 4 => r.ingredient_match = 180)

\* one call returns a recipe with all 4 of 4 required ingredients (one of
\* them matched across letter case) and one with 3 of 4, while a recipe
\* with 2 of 3 is left out
C19_Witness ==
    /\ matched.called
    /\ "PASTA" \in matched.ingredients
    /\ "pasta" \notin matched.ingredients
    /\ \E r \in Returned : r.recipe_id = "1" /\ r.ingredient_match = 240
    /\ \E r \in Returned : r.recipe_id = "2" /\ r.ingredient_match = 180
    /\ \E i \in LeftOut :
            /\ Cardinality(RequiredSet(RecipeBook[i])) = 3
            /\ Cardinality(AvailableOf(RecipeBook[i])) = 2

(***************************************************************************)
(* C20: match_recipes returns at most top_k recipes, in descending order   *)
(* of (emotion_score + ingredient_match) / 2, and no recipe that passed    *)
(* the 0.70 threshold but was left out has a strictly higher ranking key   *)
(* than a returned recipe.                                                 *)
(***************************************************************************)
C20_TopKDescending ==
    matched.called =>
        /\ Len(matched.result) <= matched.top_k
        /\ \A i \in 1..Len(matched.result) :
                RankingKey(matched.result[i]) = KeyOf(matched.result[i])
        /\ \A i, j \in 1..Len(matched.result) :
                i < j => RankingKey(matched.result[i]) >= RankingKey(matched.result[j])
        /\ \A i \in LeftOut :
                LET recipe == RecipeBook[i]
                IN  10 * Cardinality(AvailableOf(recipe))
                        >= 7 * Cardinality(RequiredSet(recipe))
                    => \A r \in Returned : KeyOf(recipe) <= RankingKey(r)

\* top_k recipes are returned with distinct keys, the first one is not the
\* first of the book, and a recipe that passed the threshold is left out
C20_Witness ==
    /\ matched.called
    /\ matched.top_k >= 2
    /\ Len(matched.result) = matched.top_k
    /\ matched.result[1].recipe_id # "1"
    /\ RankingKey(matched.result[1]) > RankingKey(matched.result[2])
    /\ \E i \in LeftOut :
            10 * Cardinality(AvailableOf(RecipeBook[i]))
                >= 7 * Cardinality(RequiredSet(RecipeBook[i]))

(***************************************************************************)
(* Observations of the last find_matching_recipes call.                    *)
(***************************************************************************)
Found == {offered.result[i] : i \in 1..Len(offered.result)}

\* the tag list of the recipe holds the restriction as one of its tags
HasTag(recipe, restriction) ==
    \E i \in 1..Len(TagsOf(recipe)) : TagsOf(recipe)[i] = restriction

\* an ingredient of the recipe contains the disliked food, letter case aside
HasIngredientLike(recipe, dislike) ==
    \E i \in 1..Len(recipe.ingredients) :
        Contains(LowerStr(recipe.ingredients[i]), LowerStr(dislike))

\* no returned recipe has an ingredient that contains a disliked food
DislikedFoodsExcluded ==
    (offered.called /\ offered.preferences.present) =>
        \A r \in Found : \A dislike \in offered.preferences.disliked_foods :
            ~HasIngredientLike(r, dislike)

\* no returned recipe has a tag that is a restriction written in lower case
LowerCaseRestrictionsExcluded ==
    (offered.called /\ offered.preferences.present) =>
        \A r \in Found : \A restriction \in offered.preferences.dietary_restrictions :
            restriction = LowerStr(restriction) => ~HasTag(r, restriction)

(***************************************************************************)
(* C21: when user preferences are supplied, find_matching_recipes returns  *)
(* no recipe whose tags contain a dietary restriction of the user and no   *)
(* recipe whose ingredients contain a disliked food of the user            *)
(* (substring match).                                                      *)
(***************************************************************************)
C21_PreferencesRespected ==
    (offered.called /\ offered.preferences.present) =>
        \A r \in Found :
            /\ \A restriction \in offered.preferences.dietary_restrictions :
                    ~HasTag(r, restriction)
            /\ \A dislike \in offered.preferences.disliked_foods :
                    ~HasIngredientLike(r, dislike)

\* the catalog recipes that reach the 0.70 threshold with the ingredients of
\* the call and that the preference filter of the call lets through
Eligible ==
    {i \in 1..Len(RecipeBook) :
        /\ 10 * Cardinality(RequiredSet(RecipeBook[i]) \cap LowerSet(offered.ingredients))
                >= 7 * Cardinality(RequiredSet(RecipeBook[i]))
        /\ offered.preferences.present =>
                /\ ~IsRestricted(RecipeBook[i], offered.preferences.dietary_restrictions)
                /\ ~IsDisliked(RecipeBook[i], offered.preferences.disliked_foods)}

\* every returned recipe is an eligible recipe of the catalog
OnlyEligibleReturned ==
    offered.called =>
        /\ Len(offered.result) <= Min(5, Cardinality(Eligible))
        /\ \A r \in Found : \E i \in Eligible : RecipeBook[i].recipe_id = r.recipe_id

(***************************************************************************)
(* C28: the preference filter excludes recipes before ranking, so          *)
(* find_matching_recipes returns min(5, M) recipes, M being the number of  *)
(* catalog recipes that reach the 0.70 ingredient threshold and pass the   *)
(* preference filter: a recipe that passes is never left out while fewer   *)
(* than 5 are returned.                                                    *)
(***************************************************************************)
C28_FilterBeforeRanking ==
    offered.called => Len(offered.result) = Min(5, Cardinality(Eligible))

(***************************************************************************)
(* Observations of the last generate_shopping_list call.                   *)
(***************************************************************************)
RequiredNames == LowerSet({shopping.ingredients[i] : i \in 1..Len(shopping.ingredients)})

AvailableNames == LowerSet(shopping.available)

Listed == {shopping.result[i] : i \in 1..Len(shopping.result)}

\* the list is the case-insensitive difference required minus available,
\* without duplicates, and as long as the unmatched part of the recipe
DifferenceListed ==
    /\ Listed \cap AvailableNames = {}
    /\ RequiredNames \ AvailableNames \subseteq Listed
    /\ Listed \subseteq RequiredNames
    /\ \A i, j \in 1..Len(shopping.result) :
            shopping.result[i] = shopping.result[j] => i = j
    /\ Len(shopping.result)
            = Cardinality(RequiredNames) - Cardinality(RequiredNames \cap AvailableNames)

\* the ingredient match of the recipe is 1.0
FullMatch == CalculateIngredientMatch(shopping.available, shopping.ingredients) = 240

(***************************************************************************)
(* C22: generate_shopping_list returns exactly the case-insensitive set    *)
(* difference required minus available: no available ingredient, every     *)
(* required ingredient that is not available, no duplicates, as many       *)
(* entries as required ingredients minus matched ones; and, for a recipe   *)
(* that requires at least one ingredient, it is empty exactly when the     *)
(* ingredient match ratio of the recipe is 1.0.                            *)
(***************************************************************************)
C22_ShoppingListIsDifference ==
    shopping.called =>
        /\ DifferenceListed
        /\ RequiredNames # {} => ((shopping.result = <<>>) <=> FullMatch)

\* a recipe with an upper-case ingredient and an available list with
\* upper-case names: one ingredient is matched across letter case, two are
\* missing
C22_Witness ==
    /\ shopping.called
    /\ shopping.ingredients = <<"bread", "garlic", "butter", "Olive Oil">>
    /\ shopping.available = {"Tomato", "PASTA", "olive oil", "bread"}
    /\ Listed = {"garlic", "butter"}
    /\ shopping.result[1] = "butter"

\* C22 as stated: the list is the difference, and it is empty exactly when
\* the ingredient match ratio is 1.0, for every recipe
C22_EmptyIffFullMatch ==
    shopping.called =>
        /\ DifferenceListed
        /\ (shopping.result = <<>>) <=> FullMatch

(***************************************************************************)
(* Observations of the last calculate_total_nutrition call.                *)
(***************************************************************************)
\* the amount of a nutrient in the i-th item, 0 if the item has no profile
\* or the profile lacks the nutrient
AmountIn(i, key) ==
    LET item == totals.food_items[i]
    IN  IF "nutrition" \in DOMAIN item /\ key \in DOMAIN item.nutrition
        THEN item.nutrition[key]
        ELSE 0

RECURSIVE SumOver(_, _)
\* the sum of a nutrient over a set of item positions
SumOver(positions, key) ==
    IF positions = {} THEN 0
    ELSE LET i == CHOOSE j \in positions : TRUE
         IN  AmountIn(i, key) + SumOver(positions \ {i}, key)

ExactSum(key) == SumOver(1..Len(totals.food_items), key)

\* the same items in another order
Reordered ==
    {list \in [1..Len(totals.food_items) -> ItemsOf(totals.food_items)] :
        \E p \in [1..Len(totals.food_items) -> 1..Len(totals.food_items)] :
            /\ \A i, j \in DOMAIN p : p[i] = p[j] => i = j
            /\ \A i \in DOMAIN p : list[i] = totals.food_items[p[i]]}

\* every amount of every item has at most one decimal
OneDecimalAmounts ==
    \A i \in 1..Len(totals.food_items) : \A key \in NutrientKeys : AmountIn(i, key) % 10 = 0

(***************************************************************************)
(* C23: calculate_total_nutrition returns, for each nutrient key, the sum  *)
(* over all items of that key's amount, rounded to one decimal, where a    *)
(* nutrient absent from an item, or an item without a profile,             *)
(* contributes zero; it is the sum itself when the amounts have at most    *)
(* one decimal; and the result does not depend on the order of the items.  *)
(***************************************************************************)
C23_TotalIsRoundedSum ==
    totals.called =>
        /\ DOMAIN totals.result = NutrientKeys
        /\ \A key \in NutrientKeys :
                /\ totals.result[key] % 10 = 0
                /\ 2 * Abs(totals.result[key] - ExactSum(key)) <= 10
                /\ OneDecimalAmounts => totals.result[key] = ExactSum(key)
        /\ \A list \in Reordered : CalculateTotalNutrition(list) = totals.result

\* 200 + 150 kcal give 350 kcal, with an item without a profile and one with
\* an empty profile between them
C23_Witness ==
    /\ totals.called
    /\ Len(totals.food_items) = 3
    /\ totals.food_items[1] = ItemMenu[1]
    /\ "nutrition" \notin DOMAIN totals.food_items[2]
    /\ totals.food_items[3] = ItemMenu[2]
    /\ totals.result["calories"] = 35000
    /\ totals.result["fat"] = 800
    /\ totals.result["sodium"] = 0

\* C23 as stated: each total is the sum itself
C23_TotalIsSum ==
    totals.called => \A key \in NutrientKeys : totals.result[key] = ExactSum(key)

(***************************************************************************)
(* Observations of the last estimate_portion_size call.                    *)
(***************************************************************************)
RegionArea == FoodPixels(portion.bbox)

ImageArea == portion.image_size[1] * portion.image_size[2]

(***************************************************************************)
(* C25: estimate_portion_size returns (regionArea / imageArea / 0.5) * 200 *)
(* clamped to [50, 500]: the result is within [50, 500], non-decreasing in *)
(* the region area, exactly 200 for a region covering half the image, 50   *)
(* for a region of area 0 and at most 500 for a region covering the whole  *)
(* image.                                                                  *)
(***************************************************************************)
C25_PortionClamped ==
    portion.called =>
        /\ portion.result >= 50
        /\ portion.result <= 500
        /\ \/ portion.result * ImageArea = RegionArea * 400
           \/ portion.result = 50 /\ RegionArea * 400 < 50 * ImageArea
           \/ portion.result = 500 /\ RegionArea * 400 > 500 * ImageArea
        /\ \A other \in BboxArgs :
                FoodPixels(other) <= RegionArea
                    => EstimatePortionSize(other, portion.image_size) <= portion.result
        /\ 2 * RegionArea = ImageArea => portion.result = 200
        /\ RegionArea = 0 => portion.result = 50
        /\ RegionArea = ImageArea => portion.result <= 500

\* a region of half the default image gives 200 g
C25_Witness ==
    /\ portion.called
    /\ portion.image_size = <<640, 640>>
    /\ portion.bbox = <<160, 0, 480, 640>>
    /\ portion.result = 200

(***************************************************************************)
(* Observations of the last run of the nutrition loop.                     *)
(***************************************************************************)
NotFoundAt == {i \in 1..Len(batch.lookups) : batch.lookups[i] = "none"}

FoundAt == {i \in 1..Len(batch.lookups) : batch.lookups[i] = "found"}

\* the total of a nutrient over the found detections alone
RECURSIVE FoundTotal(_, _)
FoundTotal(positions, key) ==
    IF positions = {} THEN 0
    ELSE LET i == CHOOSE j \in positions : TRUE
             detection == batch.detections[i]
         IN  NutritionInfo(detection.class,
                           EstimatePortionSize(detection.bbox, <<640, 640>>))[key]
                + FoundTotal(positions \ {i}, key)

\* the not-found detections are in food_items with 0 calories and a profile
\* without amounts, every lookup was made, and the totals are those of the
\* found detections
NotFoundCarried ==
    /\ batch.result.lookups_done = Len(batch.detections)
    /\ Len(batch.result.food_items) = Len(batch.detections)
    /\ \A i \in NotFoundAt :
            /\ batch.result.food_items[i].name = batch.detections[i].class
            /\ batch.result.food_items[i].calories = 0
            /\ \A key \in NutrientKeys :
                    Contribution([nutrition |-> batch.result.food_items[i].nutrition], key) = 0
    /\ \A key \in NutrientKeys :
            batch.result.total_nutrition[key] = FoundTotal(FoundAt, key)

\* the loop never stops at a detection whose lookup was not found, and it
\* completes when no lookup raises and none is found
NotFoundNeverStopsTheLoop ==
    batch.called =>
        /\ batch.result.raised # "none" => batch.result.lookups_done \notin NotFoundAt
        /\ NotFoundAt = 1..Len(batch.lookups) => batch.result.raised = "none" /\ NotFoundCarried

(***************************************************************************)
(* C24: a detection whose nutrition lookup is not found does not abort the *)
(* batch: when no lookup raises, process_food_image still succeeds, the    *)
(* item is in food_items with 0 calories and a zero-valued profile, the    *)
(* lookups of the other items are still performed and the nutrient totals  *)
(* are the totals of the found items alone.                                *)
(***************************************************************************)
C24_NotFoundDoesNotAbort ==
    (/\ batch.called
     /\ NotFoundAt # {}
     /\ \A i \in 1..Len(batch.lookups) : batch.lookups[i] # "raised") =>
        /\ batch.result.raised = "none"
        /\ NotFoundCarried

\* only a failed increment puts text of the backend into a response
OnlyIncrementFailureExposes ==
    lastResponse.details_error # "none" =>
        /\ lastResponse.increment_failed
        /\ lastResponse.error = "DatabaseError"

(***************************************************************************)
(* C26: no response to a failed storage operation exposes internal detail: *)
(* when the ledger check, the ledger increment or another database call    *)
(* fails, the body has an error category or code and a readable message,   *)
(* and never the text of the underlying backend exception.                 *)
(***************************************************************************)
C26_NoBackendTextInBody ==
    (lastResponse.status # 0 /\ lastResponse.error # "none") =>
        lastResponse.details_error # BackendText

(***************************************************************************)
(* C27: the ingredient list produced from any number of images contains    *)
(* each ingredient name at most once, and the confidence kept for a name   *)
(* is the maximum confidence among all successful detections of that name  *)
(* (on equal confidence the earlier detection is kept, which shows as the  *)
(* name keeping the place of its first detection).                         *)
(***************************************************************************)
C27_UniqueWithMaxConfidence ==
    scan.state = "returned" =>
        /\ \A i, j \in 1..Len(scan.ingredients) :
                scan.ingredients[i].name = scan.ingredients[j].name => i = j
        /\ \A ing \in ItemsOf(scan.ingredients) :
                /\ \E d \in SucceededDetections :
                        d.class = ing.name /\ d.confidence = ing.confidence
                /\ \A d \in SucceededDetections :
                        d.class = ing.name => d.confidence <= ing.confidence
        /\ \A i, j \in 1..Len(scan.ingredients) :
                i < j =>
                    \E k \in 1..Len(AllIngredients(scan.results)) :
                        /\ AllIngredients(scan.results)[k].name = scan.ingredients[i].name
                        /\ \A l \in 1..k :
                                AllIngredients(scan.results)[l].name # scan.ingredients[j].name

\* two images show the same name: the first with the lower confidence, the
\* second with the higher one, which is the one kept
C27_Witness ==
    /\ scan.state = "returned"
    /\ Len(scan.results) = 2
    /\ scan.results[1].raised = "none"
    /\ scan.results[2].raised = "none"
    /\ \E d \in ItemsOf(scan.results[1].list) : d.class = "apple" /\ d.confidence = 90
    /\ \E d \in ItemsOf(scan.results[2].list) : d.class = "apple" /\ d.confidence = 95
    /\ \E ing \in ItemsOf(scan.ingredients) : ing.name = "apple" /\ ing.confidence = 95
    /\ Len(scan.ingredients) = 2
    /\ scan.ingredients[1].name = "apple"

(***************************************************************************)
(* C29: usage is never lost: for every user and date, once the food-upload *)
(* requests have been answered, whatever the store failed on, the number   *)
(* of food records persisted by save_food_record for that user and date is *)
(* at most the stored food_analyses counter.                               *)
(***************************************************************************)
StoredFoodAnalyses(d) == SelectUsage(ledger, RequestUser, d, "food_analyses")

\* the converse, which the order of the two statements gives: an analysis is
\* counted only after its record was saved
EveryCountHasARecord ==
    \A d \in Days : StoredFoodAnalyses(d) <= food_records[d]

C29_UsageNeverLost ==
    reqs = EmptyBag =>
        \A d \in Days : food_records[d] <= StoredFoodAnalyses(d)

(***************************************************************************)
(* C30: ledger operations touch only their own counter:                    *)
(* increment_daily_usage for (user, feature, date) leaves the counters of  *)
(* every other user, every other date and every other feature of the same  *)
(* user and date unchanged, and check_daily_usage changes no counter and   *)
(* returns 0 when no counter exists for (user, date).                      *)
(***************************************************************************)
\* no statement of (u, d) was executed by the step
NoStatementOf(u, d) ==
    \A t \in ALLOWED_USAGE_TYPES : pending'[u][d][t] = pending[u][d][t]

\* the step is a call of check_daily_usage or the entry of a caller
IsCallStep == calls' = calls + 1

C30_OnlyOwnCounterTouched ==
    [][/\ \A u \in Users, d \in Days :
            NoStatementOf(u, d) => ledger'[u][d] = ledger[u][d]
       /\ \A u \in Users, d \in Days, t \in ALLOWED_USAGE_TYPES :
            pending'[u][d][t] = pending[u][d][t] =>
                ledger'[u][d].cols[t] = ledger[u][d].cols[t]
       /\ IsCallStep => ledger' = ledger
       /\ \A u \in Users, d \in Days, t \in ALLOWED_USAGE_TYPES :
            ~ledger[u][d].present =>
                /\ CheckDailyUsage(ledger, u, d, t, FALSE).raised = "none"
                /\ CheckDailyUsage(ledger, u, d, t, FALSE).value = 0]_vars

\* three counters were incremented: two features of one row, and the same
\* feature for another user on another date; a fourth pair has no row
C30_Witness ==
    /\ ledger["u1"][1].cols["food_analyses"] = 1
    /\ ledger["u1"][1].cols["fridge_analyses"] = 1
    /\ ledger["u1"][1].cols["wellness_checks"] = 0
    /\ ledger["u2"][2].cols["food_analyses"] = 1
    /\ ~ledger["u2"][1].present
    /\ ~ledger["u1"][2].present

====
